---- MODULE Spec2Model ----
(***************************************************************************)
(* Bulk page generation pipeline of the programmatic SEO tool:             *)
(* backend/utils/templating.js (fill, makeUniqueSlug, buildFaqSchema,      *)
(* validateTemplate, processTemplate), backend/routes/admin.js             *)
(* (POST /generate, DELETE /pages/:slug, DELETE /pages) and the Page       *)
(* model (required fields, unique slug index).                             *)
(*                                                                         *)
(* A JavaScript string is a sequence of one-character strings.             *)
(***************************************************************************)
EXTENDS Integers, Sequences, FiniteSets, TLC

\* ---------------------------------------------------------------- bounds
MaxPieces == 3      \* pieces concatenated into a string given to fill
MaxSeedLen == 3     \* characters of a seed given to makeUniqueSlug alone
MaxSuffix == 2      \* highest suffix the existence predicate may report
MaxVars == 2        \* entries of template.variables / of the header list
MaxFaq == 2          \* question/answer pairs of a list given to buildFaqSchema
MaxRows == 3        \* rows submitted by all generate requests together

\* ------------------------------------------------------- absent values
NullStr == <<"NULL">>          \* null / undefined where a string is expected
NullList == << <<"NULL">> >>   \* null / undefined where an array is expected

\* --------------------------------------------------------- characters
UpperChars == <<"A","B","C","D","E","F","G","H","I","J","K","L","M",
                "N","O","P","Q","R","S","T","U","V","W","X","Y","Z">>
LowerChars == <<"a","b","c","d","e","f","g","h","i","j","k","l","m",
                "n","o","p","q","r","s","t","u","v","w","x","y","z">>
DigitChars == <<"0","1","2","3","4","5","6","7","8","9">>

InSeq(c, s) == \E k \in 1..Len(s) : s[k] = c
IsAlnum(c) == InSeq(c, UpperChars) \/ InSeq(c, LowerChars) \/ InSeq(c, DigitChars)
IsSpace(c) == c = " "
toLowerCase(c) ==
    IF InSeq(c, UpperChars)
    THEN LowerChars[CHOOSE k \in 1..26 : UpperChars[k] = c]
    ELSE c

RECURSIVE MapLower(_)
MapLower(s) == IF s = <<>> THEN <<>> ELSE <<toLowerCase(Head(s))>> \o MapLower(Tail(s))

\* decimal text of a natural number, as `${counter}` produces it
RECURSIVE Digits(_)
Digits(n) == IF n < 10 THEN <<DigitChars[n + 1]>>
             ELSE Digits(n \div 10) \o <<DigitChars[(n % 10) + 1]>>

\* ------------------------------------------------------------ slugify
\* slugify(keyword, { lower: true, strict: true, remove: /[*+~.()'"!:@]/g })
\* on the characters the model uses: letters, digits, space, '-', '!', '('.
RemovedChars == {"*", "+", "~", ".", "(", ")", "'", "!", ":", "@"}

\* per character: the replacement character '-' becomes a space, then the
\* characters of options.remove are dropped
RECURSIVE SlugChars(_)
SlugChars(s) ==
    IF s = <<>> THEN <<>>
    ELSE LET c == IF Head(s) = "-" THEN " " ELSE Head(s)
         IN  (IF c \in RemovedChars THEN <<>> ELSE <<c>>) \o SlugChars(Tail(s))

\* strict: slug.replace(/[^A-Za-z0-9\s]/g, '')
Strict(s) == SelectSeq(s, LAMBDA c : IsAlnum(c) \/ IsSpace(c))

RECURSIVE TrimLeft(_)
TrimLeft(s) == IF s # <<>> /\ IsSpace(Head(s)) THEN TrimLeft(Tail(s)) ELSE s
RECURSIVE TrimRight(_)
TrimRight(s) == IF s # <<>> /\ IsSpace(s[Len(s)])
                THEN TrimRight(SubSeq(s, 1, Len(s) - 1)) ELSE s
Trim(s) == TrimRight(TrimLeft(s))

\* slug.replace(/\s+/g, '-')
RECURSIVE Hyphenate(_)
Hyphenate(s) ==
    IF s = <<>> THEN <<>>
    ELSE IF IsSpace(Head(s)) THEN <<"-">> \o Hyphenate(TrimLeft(s))
    ELSE <<Head(s)>> \o Hyphenate(Tail(s))

\* the stages in the order slugify applies them, each on the value of the
\* stage before it
slugify(keyword) ==
    CHOOSE slug \in {MapLower(d) : d \in {Hyphenate(c) : c \in {Trim(b) : b \in
                        {Strict(a) : a \in {SlugChars(k) : k \in {keyword}}}}}} : TRUE

\* ------------------------------------------------------ makeUniqueSlug
\* variant: the suffix is taken after the increment
CandidateSkip(baseSlug, counter) == baseSlug \o <<"-">> \o Digits(counter + 1)

\* variant: the candidate does not change with the counter
CandidateSame(baseSlug, counter) == baseSlug

\* `${baseSlug}-${counter}`
Candidate(baseSlug, counter) == baseSlug \o <<"-">> \o Digits(counter)

\* the while loop against a fixed existence predicate (a set of slugs)
RECURSIVE SlugLoop(_, _, _, _)
SlugLoop(baseSlug, finalSlug, counter, existing) ==
    IF finalSlug \in existing
    THEN SlugLoop(baseSlug, Candidate(baseSlug, counter), counter + 1, existing)
    ELSE finalSlug

\* checkExists = [isFunction, existing]
makeUniqueSlug(keyword, checkExists) ==
    IF keyword = <<>> \/ keyword = NullStr THEN <<>>
    ELSE IF ~checkExists.isFunction THEN slugify(keyword)
    ELSE SlugLoop(slugify(keyword), slugify(keyword), 1, checkExists.existing)

\* ---------------------------------------------------------------- fill
\* vars (a row) is the sequence of its <<key, value>> pairs in key order.
Keys(vars) == [n \in 1..Len(vars) |-> vars[n][1]]
HasKey(vars, key) == \E n \in 1..Len(vars) : vars[n][1] = key
Get(vars, key) ==
    IF HasKey(vars, key)
    THEN vars[CHOOSE n \in 1..Len(vars) : vars[n][1] = key][2]
    ELSE NullStr

\* new RegExp(`{${key}}`, 'g'): a key of letters and digits gives the
\* literal pattern {key}; a key holding '(' is an unterminated group
RegExpThrows(key) == InSeq("(", key)

\* variant: the pattern is the bare key
PatternBare(key) == key

Pattern(key) == <<"{">> \o key \o <<"}">>

\* vars[key] || ''
OrEmpty(value) == IF value = NullStr \/ value = <<>> THEN <<>> ELSE value

\* the replacement text of String.prototype.replace: $$ is '$', $& is the
\* matched text, any other character stands for itself
RECURSIVE GetSubstitution(_, _)
GetSubstitution(matched, replacement) ==
    IF replacement = <<>> THEN <<>>
    ELSE IF Len(replacement) >= 2 /\ replacement[1] = "$" /\ replacement[2] = "$"
    THEN <<"$">> \o GetSubstitution(matched, Tail(Tail(replacement)))
    ELSE IF Len(replacement) >= 2 /\ replacement[1] = "$" /\ replacement[2] = "&"
    THEN matched \o GetSubstitution(matched, Tail(Tail(replacement)))
    ELSE <<Head(replacement)>> \o GetSubstitution(matched, Tail(replacement))

MatchesAt(str, p, pat) ==
    /\ p + Len(pat) - 1 <= Len(str)
    /\ SubSeq(str, p, p + Len(pat) - 1) = pat

\* result.replace(regex, replacement) with the g flag: left to right,
\* non-overlapping, the inserted text is not scanned by this replace
RECURSIVE ReplaceFrom(_, _, _, _)
ReplaceFrom(str, p, pat, replacement) ==
    IF p > Len(str) THEN <<>>
    ELSE IF MatchesAt(str, p, pat)
    THEN GetSubstitution(pat, replacement) \o ReplaceFrom(str, p + Len(pat), pat, replacement)
    ELSE <<str[p]>> \o ReplaceFrom(str, p + 1, pat, replacement)

replace(str, key, replacement) == ReplaceFrom(str, 1, Pattern(key), replacement)

\* Object.keys(vars).forEach(key => result = result.replace(...))
RECURSIVE FillKeys(_, _, _)
FillKeys(result, vars, n) ==
    IF n > Len(vars) THEN result
    ELSE FillKeys(replace(result, vars[n][1], OrEmpty(vars[n][2])), vars, n + 1)

fill(str, vars) == IF str = <<>> \/ str = NullStr THEN str ELSE FillKeys(str, vars, 1)

\* fill throws (SyntaxError from new RegExp) instead of returning
fillThrows(str, vars) ==
    /\ str # <<>> /\ str # NullStr
    /\ \E n \in 1..Len(vars) : RegExpThrows(vars[n][1])

\* ------------------------------------------------------ buildFaqSchema
EmptyObject == [nkeys |-> 0, mainEntity |-> <<>>]
Truthy(str) == str # <<>> /\ str # NullStr

\* a value that is not an array
NoFaqArray == << [q |-> <<"NULL">>, a |-> <<"NULL">>] >>

\* variant: a pair is kept when it has a question or an answer
buildFaqSchemaEither(faqArray) ==
    LET validFaqs == SelectSeq(faqArray, LAMBDA f : Truthy(f.q) \/ Truthy(f.a))
    IN  IF faqArray = NoFaqArray \/ faqArray = <<>> \/ validFaqs = <<>> THEN EmptyObject
        ELSE [nkeys |-> 3,
              mainEntity |-> [n \in 1..Len(validFaqs) |->
                                [name |-> validFaqs[n].q, text |-> validFaqs[n].a]]]

buildFaqSchema(faqArray) ==
    LET validFaqs == SelectSeq(faqArray, LAMBDA f : Truthy(f.q) /\ Truthy(f.a))
    IN  IF faqArray = NoFaqArray \/ faqArray = <<>> \/ validFaqs = <<>> THEN EmptyObject
        ELSE [nkeys |-> 3,
              mainEntity |-> [n \in 1..Len(validFaqs) |->
                                [name |-> validFaqs[n].q, text |-> validFaqs[n].a]]]

\* ---------------------------------------------------- validateTemplate
\* a template is a record; typeof is "undefined" when the request has none
Includes(list, x) == \E n \in 1..Len(list) : list[n] = x

\* variant: the filter keeps the variables the headers include
validateTemplateKept(template, csvHeaders) ==
    IF template.typeof # "object" \/ template.variables = NullList
    THEN [isValid |-> FALSE, missing |-> <<>>,
          error |-> "Template must have a variables array"]
    ELSE IF csvHeaders = NullList
    THEN [isValid |-> FALSE, missing |-> <<>>,
          error |-> "CSV headers must be an array"]
    ELSE LET missing == SelectSeq(template.variables, LAMBDA v : Includes(csvHeaders, v))
         IN  [isValid |-> Len(missing) = 0,
              missing |-> missing,
              error |-> IF Len(missing) > 0 THEN "Missing CSV columns" ELSE "null"]

validateTemplate(template, csvHeaders) ==
    IF template.typeof # "object" \/ template.variables = NullList
    THEN [isValid |-> FALSE, missing |-> <<>>,
          error |-> "Template must have a variables array"]
    ELSE IF csvHeaders = NullList
    THEN [isValid |-> FALSE, missing |-> <<>>,
          error |-> "CSV headers must be an array"]
    ELSE LET missing == SelectSeq(template.variables, LAMBDA v : ~Includes(csvHeaders, v))
         IN  [isValid |-> Len(missing) = 0,
              missing |-> missing,
              error |-> IF Len(missing) > 0 THEN "Missing CSV columns" ELSE "null"]

\* ------------------------------------------------------ processTemplate
keywordKey == <<"k","e","y","w","o","r","d">>
cityKey == <<"c","i","t","y">>
defaultKey == <<"d","e","f","a","u","l","t">>

\* the strings processTemplate passes to fill, in call order; a template
\* without a sections or faq array behaves as one with an empty array
TemplateStrings(template) ==
    <<OrEmpty(template.title), OrEmpty(template.metaDescription), OrEmpty(template.h1)>>
    \o template.sections
    \o [n \in 1..Len(template.faq) |-> OrEmpty(template.faq[n].q)]
    \o [n \in 1..Len(template.faq) |-> OrEmpty(template.faq[n].a)]

\* some fill call throws: processTemplate rethrows 'Template processing error'
processTemplateThrows(template, vars) ==
    \E n \in 1..Len(TemplateStrings(template)) :
        fillThrows(TemplateStrings(template)[n], vars)

\* the fields computed before the slug is allocated
processTemplate(template, vars) ==
    LET faq == [n \in 1..Len(template.faq) |->
                  [q |-> fill(OrEmpty(template.faq[n].q), vars),
                   a |-> fill(OrEmpty(template.faq[n].a), vars)]]
    IN  [title |-> fill(OrEmpty(template.title), vars),
         metaDescription |-> fill(OrEmpty(template.metaDescription), vars),
         h1 |-> fill(OrEmpty(template.h1), vars),
         sections |-> [n \in 1..Len(template.sections) |-> fill(template.sections[n], vars)],
         faq |-> faq,
         templateKey |-> IF Truthy(template.templateKey) THEN template.templateKey
                         ELSE defaultKey,
         faqSchema |-> buildFaqSchema(faq)]

\* vars.keyword || vars[Object.keys(vars)[0]] || ''
primaryKeyword(vars) ==
    IF Truthy(Get(vars, keywordKey)) THEN Get(vars, keywordKey)
    ELSE IF Len(vars) > 0 /\ Truthy(vars[1][2]) THEN vars[1][2]
    ELSE <<>>

\* ----------------------------------------------------------- Page model
\* variant: the faq questions and answers are not required
PageValidAnyFaq(doc) ==
    /\ doc.slug # <<>> /\ doc.slug # <<"NULL">>
    /\ doc.title # <<>> /\ doc.title # <<"NULL">>
    /\ doc.metaDescription # <<>> /\ doc.metaDescription # <<"NULL">>
    /\ doc.h1 # <<>> /\ doc.h1 # <<"NULL">>
    /\ doc.templateKey # <<>> /\ doc.templateKey # <<"NULL">>
    /\ \A n \in 1..Len(doc.sections) : doc.sections[n] # <<>> /\ doc.sections[n] # <<"NULL">>

\* variant: slug is not required
PageValidAnySlug(doc) ==
    /\ doc.title # <<>> /\ doc.title # <<"NULL">>
    /\ doc.metaDescription # <<>> /\ doc.metaDescription # <<"NULL">>
    /\ doc.h1 # <<>> /\ doc.h1 # <<"NULL">>
    /\ doc.templateKey # <<>> /\ doc.templateKey # <<"NULL">>
    /\ \A n \in 1..Len(doc.sections) : doc.sections[n] # <<>> /\ doc.sections[n] # <<"NULL">>
    /\ \A n \in 1..Len(doc.faq) : /\ doc.faq[n].q # <<>> /\ doc.faq[n].q # <<"NULL">>
                                  /\ doc.faq[n].a # <<>> /\ doc.faq[n].a # <<"NULL">>

\* required: true on slug, title, metaDescription, h1, templateKey, every
\* sections entry and every faq q and a; an empty string is not a value
PageValid(doc) ==
    /\ Truthy(doc.slug)
    /\ Truthy(doc.title)
    /\ Truthy(doc.metaDescription)
    /\ Truthy(doc.h1)
    /\ Truthy(doc.templateKey)
    /\ \A n \in 1..Len(doc.sections) : Truthy(doc.sections[n])
    /\ \A n \in 1..Len(doc.faq) : Truthy(doc.faq[n].q) /\ Truthy(doc.faq[n].a)

\* variant: the collection has no unique index
DuplicateKeyNoIndex(collection, doc) == FALSE

\* unique: true on slug: the index rejects a second document with the slug
DuplicateKey(collection, doc) == \E p \in collection : p.slug = doc.slug

Slugs(collection) == {p.slug : p \in collection}

\* ------------------------------------------------- requests of the model
Foo == <<"F","o","o">>

\* rows a generate request may carry
RowFoo == << <<keywordKey, Foo>>, <<cityKey, <<"x">>>> >>
RowFoo1 == << <<keywordKey, <<"f","o","o"," ","1">>>>, <<cityKey, <<>>>> >>
RowEmpty == << <<keywordKey, <<>>>>, <<cityKey, <<"x">>>> >>
RowBadKey == << <<keywordKey, Foo>>, << <<"c","(">>, <<"x">> >> >>
Rows == {RowFoo, RowFoo1, RowEmpty, RowBadKey}
\* a rows array whose first element is null
RowNull == << <<NullStr, NullStr>> >>

\* templates a generate request may carry
TplKeyword ==
    [typeof |-> "object",
     templateKey |-> <<"m","i","n","i","m","a","l">>,
     title |-> <<"{","k","e","y","w","o","r","d","}">>,
     metaDescription |-> <<"d">>,
     h1 |-> <<"h">>,
     variables |-> <<keywordKey>>,
     sections |-> <<>>,
     faq |-> <<>>]
TplCity ==
    [typeof |-> "object",
     templateKey |-> NullStr,
     title |-> <<"{","c","i","t","y","}">>,
     metaDescription |-> <<"d">>,
     h1 |-> <<"{","k","e","y","w","o","r","d","}">>,
     variables |-> <<cityKey, keywordKey>>,
     sections |-> << <<"s">> >>,
     faq |-> << [q |-> <<"{","c","i","t","y","}">>, a |-> <<"a">>] >>]
TplNoVariables == [TplKeyword EXCEPT !.variables = NullList]
NoTemplate == [TplKeyword EXCEPT !.typeof = "undefined"]
Templates == {TplKeyword, TplCity, TplNoVariables, NoTemplate}

RECURSIVE SeqsUpTo(_, _)
SeqsUpTo(S, n) ==
    IF n = 0 THEN {<<>>}
    ELSE SeqsUpTo(S, n - 1) \cup {Append(q, x) : q \in SeqsUpTo(S, n - 1), x \in S}

\* row lists of at most n rows, n <= MaxRows
RowLists == [n \in 0..MaxRows |-> SeqsUpTo(Rows, n)]

Batches == {"g1", "g2"}      \* generate requests that may be in flight together

\* ------------------------------------------------------------------ state
VARIABLES
    Page,      \* the pages collection: a set of documents
    nextId,    \* _id given to the next inserted document
    gen,       \* gen[b]: the POST /generate handler of request b
    unit,      \* a utility function applied on its own: inputs and outputs
    http,      \* the other requests: handler positions, responses, cache
    DeployedPage,    \* the deployedpages collection: a set of records
    deployedFiles    \* deploy slugs d with a file public/deployed/d/index.html

vars == <<Page, nextId, gen, unit, http, DeployedPage, deployedFiles>>

NoResponse == [status |-> 0, body |-> [pending |-> TRUE]]
NoUnit == [op |-> "idle"]
NoRequest == [pc |-> "idle", op |-> "none", res |-> NoResponse]
NoCache == [baseUrl |-> <<>>, res |-> NoResponse]
\* server: ADMIN_USER and ADMIN_PASS are set; the admin build is in public/admin
NoSetup == [credentials |-> FALSE, build |-> FALSE]
\* panel: the admin panel in a browser: the chosen file and its csvData state
NoCsvData == [isNull |-> TRUE, headers |-> <<>>, preview |-> <<>>, totalRows |-> 0]
NoPanel == [file |-> <<>>, csvData |-> NoCsvData]
NoHttp == [read |-> NoRequest, admin |-> NoRequest, cache |-> NoCache, server |-> NoSetup,
           panel |-> NoPanel, deploy |-> NoRequest]

\* pc: "loop" = inside the row loop, between two database operations,
\*     "check" = a Page.findOne of checkSlugExists is pending,
\*     "save" = the insert of page.save() is pending, "done" = responded
IdleGen ==
    [pc |-> "idle", rows |-> <<>>, template |-> NoTemplate, i |-> 0,
     results |-> [success |-> 0, skipped |-> 0, errors |-> 0, pages |-> <<>>],
     processedData |-> processTemplate(NoTemplate, <<>>),
     baseSlug |-> <<>>, finalSlug |-> <<>>, counter |-> 1,
     res |-> NoResponse,
     log |-> <<>>,            \* console output of the row loop, one line per row
     inserts |-> 0,           \* documents this request has inserted
     slugs0 |-> {}]           \* slugs stored when the request arrived

Running(g) == g.pc \in {"check", "save"}

RECURSIVE SumLen(_)
SumLen(S) == IF S = {} THEN 0
             ELSE LET b == CHOOSE c \in S : TRUE
                  IN  Len(gen[b].rows) + SumLen(S \ {b})
Submitted == SumLen(Batches)    \* rows of the requests received so far

Init ==
    /\ Page = {}
    /\ nextId = 1
    /\ DeployedPage = {}
    /\ deployedFiles = {}
    /\ gen = [b \in Batches |-> IdleGen]
    /\ unit = NoUnit
    /\ http = NoHttp

\* ---------------------------------------------------------- POST /generate
pageData(g) ==
    [slug |-> g.finalSlug,
     title |-> g.processedData.title,
     metaDescription |-> g.processedData.metaDescription,
     h1 |-> g.processedData.h1,
     sections |-> g.processedData.sections,
     faq |-> g.processedData.faq,
     faqSchema |-> g.processedData.faqSchema,
     vars |-> g.rows[g.i + 1],
     templateKey |-> g.processedData.templateKey]

\* variant: the failure is logged but not counted
RowErrorNoCount(g, line) ==
    [g EXCEPT !.pc = "loop", !.i = g.i + 1, !.log = Append(g.log, line)]

\* variant: the failure ends the loop
RowErrorAbort(g, line) ==
    [g EXCEPT !.pc = "loop", !.i = Len(g.rows),
              !.results = [g.results EXCEPT !.errors = g.results.errors + 1],
              !.log = Append(g.log, line)]

\* catch (error) { console.error(...); results.errors++ } and i++
RowError(g, line) ==
    [g EXCEPT !.pc = "loop", !.i = g.i + 1,
              !.results = [g.results EXCEPT !.errors = g.results.errors + 1],
              !.log = Append(g.log, line)]

\* results.success++, results.pages.push, console.log and i++
RowSuccess(g) ==
    [g EXCEPT !.pc = "loop", !.i = g.i + 1,
              !.results = [g.results EXCEPT
                              !.success = g.results.success + 1,
                              !.pages = Append(g.results.pages,
                                               [slug |-> g.finalSlug,
                                                title |-> g.processedData.title])],
              !.log = Append(g.log, "Created page")]

\* page.save() validates the document before it sends the insert
BeforeInsert(g) ==
    IF PageValid(pageData(g)) THEN [g EXCEPT !.pc = "save"]
    ELSE RowError(g, "ValidationError")

\* the row loop from the top of iteration g.i up to the next database
\* operation: everything in between runs without touching the collection
RECURSIVE RowLoop(_), RowIteration(_)
RowLoop(g0) == CHOOSE h \in {RowIteration(g) : g \in {g0}} : TRUE
\* one iteration, on the handler state g as a value
RowIteration(g) ==
    IF g.i >= Len(g.rows)
    THEN [g EXCEPT !.pc = "done",
                   !.processedData = IdleGen.processedData,
                   !.baseSlug = <<>>, !.finalSlug = <<>>, !.counter = 1,
                   !.res = [status |-> 200,
                            body |-> [success |-> TRUE, results |-> g.results]]]
    ELSE LET rowData == g.rows[g.i + 1]
             keyword == primaryKeyword(rowData)
             processed == [g EXCEPT !.processedData = processTemplate(g.template, rowData)]
         IN  IF processTemplateThrows(g.template, rowData)
             THEN RowLoop(RowError(g, "Template processing error"))
             ELSE IF keyword = <<>>       \* makeUniqueSlug returns ''
             THEN LET h == BeforeInsert([processed EXCEPT !.finalSlug = <<>>])
                  IN  IF h.pc = "save" THEN h ELSE RowLoop(h)
             ELSE [processed EXCEPT !.pc = "check",
                                    !.baseSlug = slugify(keyword),
                                    !.finalSlug = slugify(keyword),
                                    !.counter = 1]

\* variant: the headers are taken from the last row
headersLastRow(rows) == Keys(rows[Len(rows)])

\* const headers = Object.keys(rows[0])
headers(rows) == Keys(rows[1])

\* request and template checks, then the row loop up to its first query;
\* the handler itself: gen[b] changes, the collection does not
PostGenerate(b, rows, template) ==
    /\ gen[b].pc = "idle"
    /\ LET reject(body) ==
               [gen[b] EXCEPT !.pc = "done", !.rows = rows, !.template = template,
                              !.res = [status |-> 400, body |-> body]]
           templateValidation == validateTemplate(template, headers(rows))
           fault(message) ==      \* the catch of the handler
               [gen[b] EXCEPT !.pc = "done", !.rows = rows, !.template = template,
                              !.res = [status |-> 500,
                                       body |-> [success |-> FALSE, error |-> message]]]
       IN  gen' = [gen EXCEPT ![b] =
               IF rows = <<>>
               THEN reject([success |-> FALSE, error |-> "No data rows provided"])
               ELSE IF template.typeof # "object"
               THEN reject([success |-> FALSE, error |-> "No template provided"])
               ELSE IF rows[1] = RowNull      \* Object.keys(null) throws
               THEN fault("Cannot convert undefined or null to object")
               ELSE IF ~templateValidation.isValid
               THEN reject([success |-> FALSE, error |-> templateValidation.error,
                            missing |-> templateValidation.missing])
               ELSE RowLoop([gen[b] EXCEPT !.rows = rows, !.template = template,
                                           !.slugs0 = Slugs(Page)])]
    /\ UNCHANGED <<Page, nextId, unit, DeployedPage, deployedFiles>>

\* a generate request of the model: its rows stay within MaxRows in total
StartGenerate(b, rows, template) ==
    /\ Len(rows) + Submitted <= MaxRows
    /\ PostGenerate(b, rows, template)
    /\ UNCHANGED http

\* variant: the check uses the slugs read when the request arrived
checkSlugExistsStale(g, collection) == g.finalSlug \in g.slugs0

\* const existingPage = await Page.findOne({ slug }); return !!existingPage
checkSlugExists(g, collection) == g.finalSlug \in Slugs(collection)

\* one pass of while (await checkExists(finalSlug)): the query answers;
\* a free slug leads to page.save()
CheckSlugExists(b) ==
    /\ gen[b].pc = "check"
    /\ LET g == gen[b]
       IN  gen' = [gen EXCEPT ![b] =
               IF checkSlugExists(g, Page)
               THEN [g EXCEPT !.finalSlug = Candidate(g.baseSlug, g.counter),
                              !.counter = g.counter + 1]
               ELSE LET h == BeforeInsert(g)
                    IN  IF h.pc = "save" THEN h ELSE RowLoop(h)]
    /\ UNCHANGED <<Page, nextId, unit, http, DeployedPage, deployedFiles>>

Document(doc, id) ==
    [id |-> id, slug |-> doc.slug, title |-> doc.title,
     metaDescription |-> doc.metaDescription, h1 |-> doc.h1,
     sections |-> doc.sections, faq |-> doc.faq, faqSchema |-> doc.faqSchema,
     vars |-> doc.vars, templateKey |-> doc.templateKey]

\* variant: the rejection reaches the outer catch of the handler
OnDuplicateFault(g) ==
    [g EXCEPT !.pc = "done",
              !.res = [status |-> 500,
                       body |-> [success |-> FALSE, error |-> "E11000 duplicate key"]]]

\* the insert was rejected by the unique index: the catch of the row
OnDuplicate(g) == RowLoop(RowError(g, "E11000 duplicate key"))

\* the insert of page.save() answers: stored, or rejected by the unique
\* index; then the loop goes on to the next database operation
SavePage(b) ==
    /\ gen[b].pc = "save"
    /\ LET g == gen[b]
       IN  IF DuplicateKey(Page, pageData(g))
           THEN /\ gen' = [gen EXCEPT ![b] = OnDuplicate(g)]
                /\ UNCHANGED <<Page, nextId>>
           ELSE /\ Page' = Page \cup {Document(pageData(g), nextId)}
                /\ nextId' = nextId + 1
                /\ gen' = [gen EXCEPT ![b] =
                              RowLoop(RowSuccess([g EXCEPT !.inserts = g.inserts + 1]))]
    /\ UNCHANGED <<unit, http, DeployedPage, deployedFiles>>

\* ------------------------------------------------ DELETE /pages/:slug
\* Page.deleteOne({ slug }) removes one matching document, if any
DeletePage(slug) ==
    /\ \E p \in Page : p.slug = slug /\ Page' = Page \ {p}
    /\ UNCHANGED <<nextId, gen, unit, http, DeployedPage, deployedFiles>>

\* ------------------------------------------------------- DELETE /pages
\* Page.deleteMany({ templateKey })
DeletePages(templateKey) ==
    /\ Truthy(templateKey)
    /\ Page' = Page \ {p \in Page : p.templateKey = templateKey}
    /\ UNCHANGED <<nextId, gen, unit, http, DeployedPage, deployedFiles>>

\* request parameters of the delete routes
DeleteSlugs == {slugify(Foo), Candidate(slugify(Foo), 1), <<"n","o","n","e">>}
DeleteKeys == {TplKeyword.templateKey, defaultKey, NullStr}

Next ==
    \/ \E b \in {c \in Batches : gen[c].pc = "idle"} :
          \E rows \in RowLists[MaxRows - Submitted], template \in Templates :
             StartGenerate(b, rows, template)
    \/ \E b \in Batches : CheckSlugExists(b)
    \/ \E b \in Batches : SavePage(b)
    \/ \E slug \in DeleteSlugs : DeletePage(slug)
    \/ \E templateKey \in DeleteKeys : DeletePages(templateKey)

Spec == Init /\ [][Next]_vars

\* the same requests, one at a time: a request arrives only while no
\* generate batch is running, so a batch has no concurrent writer
Quiet == \A b \in Batches : ~Running(gen[b])

NextSeq ==
    \/ /\ Quiet
       /\ \E b \in {c \in Batches : gen[c].pc = "idle"} :
             \E rows \in RowLists[MaxRows - Submitted], template \in Templates :
                StartGenerate(b, rows, template)
    \/ \E b \in Batches : CheckSlugExists(b)
    \/ \E b \in Batches : SavePage(b)
    \/ Quiet /\ \E slug \in DeleteSlugs : DeletePage(slug)
    \/ Quiet /\ \E templateKey \in DeleteKeys : DeletePages(templateKey)

SpecSeq == Init /\ [][NextSeq]_vars

\* generate requests that fail as a whole, next to ones that succeed in
\* part: no rows, a null row, no template, a template that does not fit
BodyRows == {<<>>, <<RowNull>>, <<RowFoo>>, <<RowFoo, RowEmpty>>}

NextBody ==
    \/ \E b \in {c \in Batches : gen[c].pc = "idle"} :
          \E rows \in BodyRows, template \in Templates \cup {TplCity} :
             StartGenerate(b, rows, template)
    \/ \E b \in Batches : CheckSlugExists(b)
    \/ \E b \in Batches : SavePage(b)

SpecBody == Init /\ [][NextBody]_vars

TypeOK == \A b \in Batches : gen[b].pc \in {"idle", "check", "save", "done"}

\* =================================================================
\* The site: render, sitemap, robots, listing and the delete handlers
\* =================================================================
minimalKey == TplKeyword.templateKey
localSeoKey == <<"l","o","c","a","l","-","s","e","o">>
serviceLandingKey == <<"s","e","r","v","i","c","e","-","l","a","n","d","i","n","g">>
modernBlueKey == <<"m","o","d","e","r","n","-","b","l","u","e">>
darkPastelKey == <<"d","a","r","k","-","p","a","s","t","e","l">>
faqRichKey == <<"f","a","q","-","r","i","c","h">>
constructorKey == <<"c","o","n","s","t","r","u","c","t","o","r">>

\* templates of the generate requests that filled the site
TplFaqRich == [TplCity EXCEPT !.templateKey = faqRichKey]
TplConstructor == [TplKeyword EXCEPT !.templateKey = constructorKey]

\* the document a generate request stores for a row under a free slug
StoredPage(template, row, slug, id) ==
    Document(pageData([rows |-> <<row>>, i |-> 0, finalSlug |-> slug,
                       processedData |-> processTemplate(template, row)]), id)

\* pages of the site in the order of their creation: two of the minimal
\* template, one of faq-rich, one of a template whose key is 'constructor'
\* and one of a template without a key
SitePages ==
    { StoredPage(TplKeyword, RowFoo, slugify(Foo), 1),
      StoredPage(TplKeyword, RowFoo, Candidate(slugify(Foo), 1), 2),
      StoredPage(TplFaqRich, RowFoo, Candidate(slugify(Foo), 2), 3),
      StoredPage(TplConstructor, RowFoo, Candidate(slugify(Foo), 3), 4),
      StoredPage(TplCity, RowFoo, Candidate(slugify(Foo), 4), 5) }

\* req.protocol + '://' + req.get('host')
BaseUrls == { <<"h","t","t","p",":","/","/","a">>, <<"h","t","t","p","s",":","/","/","b">> }

NoPage == [id |-> 0]

\* const TEMPLATE_MAP = { ... }: the entries of the object literal
TemplateMapEntry(templateKey) ==
    IF templateKey \in {minimalKey, localSeoKey}
    THEN [variant |-> "basic", view |-> "page_template_minimal", legacyInline |-> FALSE]
    ELSE IF templateKey \in {serviceLandingKey, modernBlueKey}
    THEN [variant |-> "service", view |-> "page_template_modern_blue", legacyInline |-> FALSE]
    ELSE IF templateKey = darkPastelKey
    THEN [variant |-> "dark", view |-> "page_template_dark_pastel", legacyInline |-> FALSE]
    ELSE IF templateKey = faqRichKey
    THEN [variant |-> "faq", view |-> "undefined", legacyInline |-> TRUE]
    ELSE [variant |-> "undefined", view |-> "undefined", legacyInline |-> FALSE]

\* property names every object inherits from Object.prototype
InheritedKeys == { constructorKey }

\* TEMPLATE_MAP[templateKey]: an entry, an inherited property (an object
\* without variant, view and legacyInline), or undefined
TEMPLATE_MAP(templateKey) ==
    IF templateKey \in InheritedKeys
    THEN [typeof |-> "function", variant |-> "undefined", view |-> "undefined",
          legacyInline |-> FALSE]
    ELSE IF TemplateMapEntry(templateKey).variant = "undefined"
    THEN [typeof |-> "undefined", variant |-> "undefined", view |-> "undefined",
          legacyInline |-> FALSE]
    ELSE [typeof |-> "object", variant |-> TemplateMapEntry(templateKey).variant,
          view |-> TemplateMapEntry(templateKey).view,
          legacyInline |-> TemplateMapEntry(templateKey).legacyInline]

\* const templateDef = TEMPLATE_MAP[page.templateKey] || TEMPLATE_MAP['minimal']
templateDef(page) ==
    IF TEMPLATE_MAP(page.templateKey).typeof = "undefined"
    THEN TEMPLATE_MAP(minimalKey)
    ELSE TEMPLATE_MAP(page.templateKey)

\* ejs.renderFile of views/<view>.ejs fails when there is no such file
ejsRenderFileThrows(view) == view = "undefined"

\* the elements the handler writes into <head> that carry page data
HeadOf(page) ==
    << [tag |-> "title", content |-> page.title],
       [tag |-> "meta description", content |-> page.metaDescription],
       [tag |-> "meta og:title", content |-> page.title],
       [tag |-> "meta og:description", content |-> page.metaDescription],
       [tag |-> "link stylesheet", content |-> <<"/","s","t","y","l","e","s",".","c","s","s">>],
       [tag |-> "link stylesheet", content |-> <<"/","t","e","m","p","l","a","t","e","s",".","c","s","s">>] >>

\* .select('slug title') of the related pages
\* (.limit(6) is above the number of pages the site holds here)
Related(page, collection) ==
    {[slug |-> r.slug, title |-> r.title] :
        r \in {p \in collection : p.templateKey = page.templateKey /\ p.slug # page.slug}}

NotFoundDocument(slug) ==
    [status |-> 404, kind |-> "Page Not Found", slug |-> slug]
ServerErrorDocument ==
    [status |-> 500, kind |-> "Server Error"]
PageDocument(page, variant, relatedPages) ==
    [status |-> 200, kind |-> "page", head |-> HeadOf(page), variant |-> variant,
     h1 |-> page.h1, relatedPages |-> relatedPages,
     ldjson |-> page.faqSchema.nkeys > 0]

Free(slot) == http[slot].pc \in {"idle", "done"}

\* ------------------------------------------------------------ GET /:slug
\* the request arrives; Page.findOne({ slug }) is sent
StartRender(slug) ==
    /\ Free("read")
    /\ http' = [http EXCEPT !.read = [pc |-> "findOne", op |-> "render", slug |-> slug,
                                       page |-> NoPage, res |-> NoResponse]]
    /\ UNCHANGED <<Page, nextId, gen, unit, DeployedPage, deployedFiles>>

\* variant: the lookup clears the title of the page it returns
findOneAndUpdate(collection, slug) ==
    {IF p.slug = slug THEN [p EXCEPT !.title = <<>>] ELSE p : p \in collection}

\* variant: the lookup removes the page it returns
findOneAndDelete(collection, slug) == {p \in collection : p.slug # slug}

\* Page.findOne({ slug }) reads: the collection after the query
findOne(collection, slug) == collection

\* if (!page) return res.status(404).send(...)
RenderNotFound(h) == [h EXCEPT !.pc = "done", !.res = NotFoundDocument(h.slug)]

\* findOne answers: not found, or the page is loaded and the query for the
\* related pages is sent
RenderFindOne ==
    /\ http.read.op = "render" /\ http.read.pc = "findOne"
    /\ http' = [http EXCEPT !.read =
           IF \E p \in Page : p.slug = http.read.slug
           THEN [http.read EXCEPT !.pc = "related",
                                  !.page = CHOOSE p \in Page : p.slug = http.read.slug]
           ELSE RenderNotFound(http.read)]
    /\ Page' = findOne(Page, http.read.slug)
    /\ UNCHANGED <<nextId, gen, unit, DeployedPage, deployedFiles>>

\* the related pages arrive; the document is composed inline or from the
\* EJS view and sent; a failing view ends in the catch
RenderRelated ==
    /\ http.read.op = "render" /\ http.read.pc = "related"
    /\ LET page == http.read.page
           def == templateDef(page)
           relatedPages == Related(page, Page)
       IN  http' = [http EXCEPT !.read = [http.read EXCEPT !.pc = "done", !.res =
               IF def.legacyInline
               THEN PageDocument(page, "faq", relatedPages)
               ELSE IF ejsRenderFileThrows(def.view)
               THEN ServerErrorDocument
               ELSE PageDocument(page, def.variant, relatedPages)]]
    /\ UNCHANGED <<Page, nextId, gen, unit, DeployedPage, deployedFiles>>

\* ------------------------------------------------------ GET /sitemap.xml
\* the pages by falling _id (the order of .sort({ updatedAt: -1 }))
RECURSIVE Newest(_)
Newest(collection) ==
    IF collection = {} THEN <<>>
    ELSE LET p == CHOOSE q \in collection : \A r \in collection : r.id <= q.id
         IN  <<p>> \o Newest(collection \ {p})

\* variant: the entries of the pages without the root entry
UrlsNoRoot(baseUrl, pages) ==
    [n \in 1..Len(pages) |->
       [loc |-> baseUrl \o <<"/">> \o pages[n].slug, priority |-> "0.8"]]

\* the <url> entries the handler writes
Urls(baseUrl, pages) ==
    << [loc |-> baseUrl \o <<"/">>, priority |-> "1.0"] >>
    \o [n \in 1..Len(pages) |->
          [loc |-> baseUrl \o <<"/">> \o pages[n].slug, priority |-> "0.8"]]


\* the request goes to the server (via = "origin") or through an HTTP
\* cache that keeps responses as their Cache-Control allows; the cache
\* passes on a request for which it keeps no response
StartSitemap(baseUrl, via) ==
    /\ Free("read")
    /\ http' = [http EXCEPT !.read =
                   [pc |-> IF via = "cache" /\ http.cache.baseUrl = baseUrl
                           THEN "cached" ELSE "find",
                    op |-> "sitemap", baseUrl |-> baseUrl, via |-> via,
                    res |-> NoResponse]]
    /\ UNCHANGED <<Page, nextId, gen, unit, DeployedPage, deployedFiles>>

\* Page.find({}, 'slug updatedAt') answers and the sitemap is sent
SitemapFind ==
    /\ http.read.op = "sitemap" /\ http.read.pc = "find"
    /\ LET res == [status |-> 200, kind |-> "sitemap",
                   cacheControl |-> "public, max-age=300",
                   urls |-> Urls(http.read.baseUrl, Newest(Page))]
       IN  http' = [http EXCEPT !.read = [http.read EXCEPT !.pc = "done", !.res = res],
                                !.cache = IF http.read.via = "cache"
                                          THEN [baseUrl |-> http.read.baseUrl, res |-> res]
                                          ELSE @]
    /\ UNCHANGED <<Page, nextId, gen, unit, DeployedPage, deployedFiles>>

\* ------------------------------------------------------- GET /robots.txt
Robots(baseUrl) ==
    /\ Free("read")
    /\ http' = [http EXCEPT !.read =
                   [pc |-> "done", op |-> "robots", baseUrl |-> baseUrl,
                    res |-> [status |-> 200, kind |-> "robots",
                             sitemap |-> baseUrl \o <<"/","s","i","t","e","m","a","p",".","x","m","l">>]]]
    /\ UNCHANGED <<Page, nextId, gen, unit, DeployedPage, deployedFiles>>

\* -------------------------------------------------------- GET /api/pages
\* page and limit keep their defaults 1 and 20; templateKey is optional
Matching(collection, templateKey) ==
    IF Truthy(templateKey) THEN {p \in collection : p.templateKey = templateKey}
    ELSE collection

StartList(templateKey) ==
    /\ Free("read")
    /\ http' = [http EXCEPT !.read = [pc |-> "countDocuments", op |-> "list",
                                       templateKey |-> templateKey, totalPages |-> 0,
                                       pages |-> <<>>, res |-> NoResponse]]
    /\ UNCHANGED <<Page, nextId, gen, unit, DeployedPage, deployedFiles>>

ListCount ==
    /\ http.read.op = "list" /\ http.read.pc = "countDocuments"
    /\ http' = [http EXCEPT !.read = [http.read EXCEPT !.pc = "find",
                   !.totalPages = Cardinality(Matching(Page, http.read.templateKey))]]
    /\ UNCHANGED <<Page, nextId, gen, unit, DeployedPage, deployedFiles>>

ListFind ==
    /\ http.read.op = "list" /\ http.read.pc = "find"
    /\ LET found == Newest(Matching(Page, http.read.templateKey))
       IN  http' = [http EXCEPT !.read = [http.read EXCEPT !.pc = "distinct",
                       !.pages = [n \in 1..Len(found) |->
                                     [slug |-> found[n].slug, title |-> found[n].title,
                                      metaDescription |-> found[n].metaDescription,
                                      templateKey |-> found[n].templateKey]]]]
    /\ UNCHANGED <<Page, nextId, gen, unit, DeployedPage, deployedFiles>>

ListDistinct ==
    /\ http.read.op = "list" /\ http.read.pc = "distinct"
    /\ http' = [http EXCEPT !.read = [http.read EXCEPT !.pc = "done", !.res =
                   [status |-> 200, kind |-> "list",
                    pages |-> http.read.pages,
                    totalItems |-> http.read.totalPages,
                    templateKeys |-> {p.templateKey : p \in Page}]]]
    /\ UNCHANGED <<Page, nextId, gen, unit, DeployedPage, deployedFiles>>

\* an HTTP cache between the client and the server answers the request
\* with the response it keeps for this URL
SitemapFromCache ==
    /\ http.read.op = "sitemap" /\ http.read.pc = "cached"
    /\ http' = [http EXCEPT !.read = [http.read EXCEPT !.pc = "done",
                                                        !.res = http.cache.res]]
    /\ UNCHANGED <<Page, nextId, gen, unit, DeployedPage, deployedFiles>>

\* max-age has passed: the cache drops the response
CacheExpire ==
    /\ http.cache # NoCache
    /\ http.read.pc # "cached"
    /\ http' = [http EXCEPT !.cache = NoCache]
    /\ UNCHANGED <<Page, nextId, gen, unit, DeployedPage, deployedFiles>>

\* ---------------------------------------- DELETE /pages/:slug, answered
\* variant: the delete removes every page of the template of the page
DeleteOneWide(collection, slug) ==
    {p \in collection : \E q \in collection : q.slug = slug /\ q.templateKey = p.templateKey}

\* Page.deleteOne({ slug }): the documents it removes
DeleteOne(collection, slug) == {p \in collection : p.slug = slug}

DeletePageRequest(slug) ==
    /\ Free("admin")
    /\ LET deleted == DeleteOne(Page, slug)
       IN  /\ Page' = Page \ deleted
           /\ http' = [http EXCEPT !.admin =
                  [pc |-> "done", op |-> "deletePage", slug |-> slug,
                   res |-> IF Cardinality(deleted) = 0
                           THEN [status |-> 404,
                                 body |-> [success |-> FALSE, error |-> "Page not found"]]
                           ELSE [status |-> 200,
                                 body |-> [success |-> TRUE,
                                           message |-> "Page deleted successfully"]]]]
    /\ UNCHANGED <<nextId, gen, unit, DeployedPage, deployedFiles>>

\* ------------------------------------------------ DELETE /pages, answered
\* variant: the filter is left empty
DeleteManyAll(collection, templateKey) == collection

\* Page.deleteMany({ templateKey }): the documents it removes
DeleteMany(collection, templateKey) == {p \in collection : p.templateKey = templateKey}

DeletePagesRequest(templateKey) ==
    /\ Free("admin")
    /\ LET deleted == IF Truthy(templateKey) THEN DeleteMany(Page, templateKey) ELSE {}
       IN  /\ Page' = Page \ deleted
           /\ http' = [http EXCEPT !.admin =
                  [pc |-> "done", op |-> "deletePages", templateKey |-> templateKey,
                   res |-> IF ~Truthy(templateKey)
                           THEN [status |-> 400,
                                 body |-> [success |-> FALSE,
                                           error |-> "Template key is required for bulk deletion"]]
                           ELSE [status |-> 200,
                                 body |-> [success |-> TRUE,
                                           deletedCount |-> Cardinality(deleted)]]]]
    /\ UNCHANGED <<nextId, gen, unit, DeployedPage, deployedFiles>>

\* request parameters
SiteSlugs == {p.slug : p \in SitePages}
SiteDeleteKeys == {minimalKey, faqRichKey, NullStr}
ListKeys == {NullStr, minimalKey}

\* the site after some generate and delete requests: any of the pages may
\* be stored; from then on it is read, and pages are deleted
InitSite ==
    /\ Page \in SUBSET SitePages
    /\ nextId = Cardinality(SitePages) + 1
    /\ DeployedPage = {}
    /\ deployedFiles = {}
    /\ gen = [b \in Batches |-> IdleGen]
    /\ unit = NoUnit
    /\ http = NoHttp

NextSite ==
    \/ \E slug \in SiteSlugs : DeletePageRequest(slug)
    \/ \E templateKey \in SiteDeleteKeys : DeletePagesRequest(templateKey)
    \/ \E slug \in SiteSlugs : StartRender(slug)
    \/ RenderFindOne
    \/ RenderRelated
    \/ \E baseUrl \in BaseUrls : StartSitemap(baseUrl, "origin")
    \/ SitemapFind
    \/ \E baseUrl \in BaseUrls : Robots(baseUrl)
    \/ \E templateKey \in ListKeys : StartList(templateKey)
    \/ ListCount
    \/ ListFind
    \/ ListDistinct

SpecSite == InitSite /\ [][NextSite]_vars

\* the sitemap asked for through an HTTP cache, while pages come and go
NextCache ==
    \/ \E b \in {c \in Batches : gen[c].pc = "idle"} :
          StartGenerate(b, <<RowFoo>>, TplKeyword)
    \/ \E b \in Batches : CheckSlugExists(b)
    \/ \E b \in Batches : SavePage(b)
    \/ \E slug \in {slugify(Foo)} : DeletePageRequest(slug)
    \/ \E baseUrl \in BaseUrls : StartSitemap(baseUrl, "cache")
    \/ SitemapFind
    \/ SitemapFromCache
    \/ CacheExpire

SpecCache == Init /\ [][NextCache]_vars

\* =================================================================
\* server.js: the middleware stack in the order of registration
\* =================================================================
IsPrefix(prefix, path) ==
    Len(prefix) <= Len(path) /\ SubSeq(path, 1, Len(prefix)) = prefix

\* app.use(mount, ...): the path is the mount path or lies below it
Mounted(mount, path) == path = mount \/ IsPrefix(mount \o <<"/">>, path)

\* router.get('/:slug'): one path segment, a closing '/' allowed
MatchesSlugRoute(path) ==
    /\ Len(path) >= 2 /\ path[1] = "/" /\ path[2] # "/"
    /\ \A n \in 2..(Len(path) - 1) : path[n] # "/"

adminPath == <<"/","a","d","m","i","n">>
apiPath == <<"/","a","p","i">>
ADMIN_USER == <<"u">>
ADMIN_PASS == <<"p">>

\* files of public/ when the admin build has been copied there, and without
PublicFiles(server) ==
    { <<"/","s","t","y","l","e","s",".","c","s","s">> }
    \cup (IF server.build THEN { <<"/","a","d","m","i","n","/">>, <<"/","a","d","m","i","n","/","m","a","i","n",".","j","s">> } ELSE {})

\* requests
Paths == { <<"/","a","d","m","i","n">>, <<"/","a","d","m","i","n","/">>, <<"/","a","d","m","i","n","/","m","a","i","n",".","j","s">>, <<"/","a","d","m","i","n","/","p","a","g","e","s">>,
           <<"/","a","p","i","/","p","a","g","e","s">>, <<"/","f","o","o">>, <<"/","s","t","y","l","e","s",".","c","s","s">> }
NoAuthorization == [scheme |-> "none", username |-> <<>>, password |-> <<>>]
Authorizations ==
    { NoAuthorization,
      [scheme |-> "Bearer", username |-> ADMIN_USER, password |-> ADMIN_PASS],
      [scheme |-> "Basic", username |-> ADMIN_USER, password |-> ADMIN_PASS],
      [scheme |-> "Basic", username |-> ADMIN_USER, password |-> <<"x">>] }
Setups == [credentials : BOOLEAN, build : BOOLEAN]

\* const basicAuth = (req, res, next) => ...: "next" or the 401 it sends
basicAuth(req, server) ==
    IF ~server.credentials THEN "next"
    ELSE IF req.authorization.scheme # "Basic" THEN "Authentication required"
    ELSE IF req.authorization.username = ADMIN_USER
            /\ req.authorization.password = ADMIN_PASS THEN "next"
    ELSE "Invalid credentials"

Dispatching(layer) == http.read.op = "dispatch" /\ http.read.pc = layer
Pass(layer) == http' = [http EXCEPT !.read = [http.read EXCEPT !.pc = layer]]
Send(status, by) ==
    http' = [http EXCEPT !.read = [http.read EXCEPT !.pc = "done",
                !.res = [status |-> status, by |-> by,
                         cacheControl |-> http.read.res.cacheControl]]]

\* a GET request arrives; the body parsers pass it on
Arrive(path, authorization) ==
    /\ Free("read")
    /\ http' = [http EXCEPT !.read =
                   [pc |-> "cacheHeaders", op |-> "dispatch",
                    req |-> [path |-> path, authorization |-> authorization],
                    res |-> [status |-> 0, by |-> "none", cacheControl |-> "none"]]]
    /\ UNCHANGED <<Page, nextId, gen, unit, DeployedPage, deployedFiles>>

\* lines 18-27
CacheHeaders ==
    /\ Dispatching("cacheHeaders")
    /\ LET path == http.read.req.path
           cacheControl ==
               IF \E ext \in { <<".","c","s","s">>, <<".","j","s">> } :
                     Len(ext) <= Len(path)
                     /\ SubSeq(path, Len(path) - Len(ext) + 1, Len(path)) = ext
               THEN "public, max-age=31536000"
               ELSE IF IsPrefix(<<"/","a","p","i","/">>, path) THEN "no-cache"
               ELSE "public, max-age=300"
       IN  http' = [http EXCEPT !.read = [http.read EXCEPT !.pc = "staticAdmin",
                                                           !.res.cacheControl = cacheControl]]
    /\ UNCHANGED <<Page, nextId, gen, unit, DeployedPage, deployedFiles>>

\* line 57: app.use('/admin', express.static(public/admin)), before any auth
StaticAdmin ==
    /\ Dispatching("staticAdmin")
    /\ LET path == http.read.req.path
       IN  IF Mounted(adminPath, path) /\ path \in PublicFiles(http.server)
           THEN Send(200, "express.static")
           ELSE IF path = adminPath /\ http.server.build
           THEN Send(301, "express.static")      \* the directory: redirect to /admin/
           ELSE Pass("staticPublic")
    /\ UNCHANGED <<Page, nextId, gen, unit, DeployedPage, deployedFiles>>

\* line 58: app.use(express.static(public))
StaticPublic ==
    /\ Dispatching("staticPublic")
    /\ IF http.read.req.path \in PublicFiles(http.server)
       THEN Send(200, "express.static")
       ELSE Pass("api")
    /\ UNCHANGED <<Page, nextId, gen, unit, DeployedPage, deployedFiles>>

\* line 71: app.use('/api', basicAuth, adminRoutes)
ApiRoutes ==
    /\ Dispatching("api")
    /\ IF ~Mounted(apiPath, http.read.req.path) THEN Pass("pages")
       ELSE IF basicAuth(http.read.req, http.server) # "next" THEN Send(401, "basicAuth")
       ELSE Send(200, "adminRoutes")
    /\ UNCHANGED <<Page, nextId, gen, unit, DeployedPage, deployedFiles>>

\* line 75: app.use('/', pagesRoutes): GET /:slug takes every path of one
\* segment and answers with the page or the not-found document
PagesRoutes ==
    /\ Dispatching("pages")
    /\ IF MatchesSlugRoute(http.read.req.path)
       THEN Send(IF \E p \in Page : http.read.req.path \in
                       {<<"/">> \o p.slug, <<"/">> \o p.slug \o <<"/">>}
                 THEN 200 ELSE 404, "pagesRoutes")
       ELSE Pass("adminAuth")
    /\ UNCHANGED <<Page, nextId, gen, unit, DeployedPage, deployedFiles>>

\* line 78: app.use('/admin*', basicAuth)
AdminAuth ==
    /\ Dispatching("adminAuth")
    /\ IF IsPrefix(adminPath, http.read.req.path)
          /\ basicAuth(http.read.req, http.server) # "next"
       THEN Send(401, "basicAuth")
       ELSE Pass("adminFiles")
    /\ UNCHANGED <<Page, nextId, gen, unit, DeployedPage, deployedFiles>>

\* lines 80-85: the admin build again, then index.html for every /admin*
\* path; any other path ends in the 404 of express
AdminFiles ==
    /\ Dispatching("adminFiles")
    /\ IF IsPrefix(adminPath, http.read.req.path)
       THEN IF http.server.build THEN Send(200, "sendFile") ELSE Send(500, "error handler")
       ELSE Send(404, "finalhandler")
    /\ UNCHANGED <<Page, nextId, gen, unit, DeployedPage, deployedFiles>>

InitServer ==
    /\ Page = {}
    /\ nextId = 1
    /\ DeployedPage = {}
    /\ deployedFiles = {}
    /\ gen = [b \in Batches |-> IdleGen]
    /\ unit = NoUnit
    /\ \E server \in Setups : http = [NoHttp EXCEPT !.server = server]

NextServer ==
    \/ \E path \in Paths, authorization \in Authorizations : Arrive(path, authorization)
    \/ CacheHeaders
    \/ StaticAdmin
    \/ StaticPublic
    \/ ApiRoutes
    \/ PagesRoutes
    \/ AdminAuth
    \/ AdminFiles

SpecServer == InitServer /\ [][NextServer]_vars

\* --------------------------------------------- utility functions alone
\* fill, makeUniqueSlug and validateTemplate applied to inputs of bounded
\* sets; unit holds the inputs and, once applied, the result.
RECURSIVE Flatten(_)
Flatten(ss) == IF ss = <<>> THEN <<>> ELSE Head(ss) \o Flatten(Tail(ss))

aKey == <<"a">>
bKey == <<"b">>
Pieces == { <<"{","a","}">>, <<"{","b","}">>, <<"{","c","}">>, <<"a">>, <<"{">>, <<"}">> }
FillStrings == {Flatten(ps) : ps \in SeqsUpTo(Pieces, MaxPieces)}
FillValues == { NullStr, <<>>, <<"a">>, <<"{","a","}">>, <<"{","b","}">>,
                <<"$","&">>, <<"$","$">> }
FillRows ==
    { <<>>, << << <<"(">>, <<"x">> >> >> }
    \cup { << <<k, v>> >> : k \in {aKey, bKey}, v \in FillValues }
    \cup { << <<aKey, v>>, <<bKey, w>> >> : v \in FillValues, w \in FillValues }
    \cup { << <<bKey, v>>, <<aKey, w>> >> : v \in FillValues, w \in FillValues }

SeedChars == {"F", "o", " ", "-", "1", "!"}
Seeds == SeqsUpTo(SeedChars, MaxSeedLen) \cup {NullStr}
\* the candidates of a base slug up to suffix n
CandidatesUpTo(baseSlug, n) == {baseSlug} \cup {Candidate(baseSlug, k) : k \in 1..n}

Names == {cityKey, keywordKey, <<"b","r","a","n","d">>}
NameLists == SeqsUpTo(Names, MaxVars) \cup {NullList}

FaqItems == {[q |-> q, a |-> a] : q \in {NullStr, <<>>, <<"q">>, <<"r">>},
                                  a \in {NullStr, <<>>, <<"a">>}}
FaqLists == SeqsUpTo(FaqItems, MaxFaq) \cup {NoFaqArray}

InitUnit ==
    /\ Page = {}
    /\ nextId = 1
    /\ DeployedPage = {}
    /\ deployedFiles = {}
    /\ gen = [b \in Batches |-> IdleGen]
    /\ http = NoHttp
    /\ \/ \E str \in FillStrings, row \in FillRows :
             unit = [op |-> "fill", str |-> str, vars |-> row, stage |-> 0,
                     threw |-> FALSE, out1 |-> <<>>, out2 |-> <<>>]
       \/ \E keyword \in Seeds, isFunction \in BOOLEAN :
             \E existing \in SUBSET CandidatesUpTo(slugify(keyword), MaxSuffix) :
                /\ isFunction \/ existing = {}
                /\ unit = [op |-> "makeUniqueSlug", keyword |-> keyword,
                           checkExists |-> [isFunction |-> isFunction, existing |-> existing],
                           stage |-> 0, out |-> <<>>]
       \/ \E variables \in NameLists, csvHeaders \in NameLists, typeof \in {"object", "undefined"} :
             /\ typeof = "object" \/ variables = NullList
             /\ unit = [op |-> "validateTemplate",
                        template |-> [TplKeyword EXCEPT !.typeof = typeof,
                                                        !.variables = variables],
                        csvHeaders |-> csvHeaders, stage |-> 0,
                        out |-> [isValid |-> FALSE, missing |-> <<>>, error |-> "null"]]
       \/ \E faqArray \in FaqLists :
             unit = [op |-> "buildFaqSchema", faqArray |-> faqArray, stage |-> 0,
                     out |-> EmptyObject]

\* fill(str, vars)
ApplyFill ==
    /\ unit.op = "fill" /\ unit.stage = 0
    /\ unit' = IF fillThrows(unit.str, unit.vars)
               THEN [unit EXCEPT !.stage = 3, !.threw = TRUE]
               ELSE [unit EXCEPT !.stage = 1, !.out1 = fill(unit.str, unit.vars)]
    /\ UNCHANGED <<Page, nextId, gen, http, DeployedPage, deployedFiles>>

\* fill(fill(str, vars), vars)
ApplyFillAgain ==
    /\ unit.op = "fill" /\ unit.stage = 1
    /\ unit' = [unit EXCEPT !.stage = 2, !.out2 = fill(unit.out1, unit.vars)]
    /\ UNCHANGED <<Page, nextId, gen, http, DeployedPage, deployedFiles>>

ApplyMakeUniqueSlug ==
    /\ unit.op = "makeUniqueSlug" /\ unit.stage = 0
    /\ unit' = [unit EXCEPT !.stage = 1,
                            !.out = makeUniqueSlug(unit.keyword, unit.checkExists)]
    /\ UNCHANGED <<Page, nextId, gen, http, DeployedPage, deployedFiles>>

ApplyValidateTemplate ==
    /\ unit.op = "validateTemplate" /\ unit.stage = 0
    /\ unit' = [unit EXCEPT !.stage = 1,
                            !.out = validateTemplate(unit.template, unit.csvHeaders)]
    /\ UNCHANGED <<Page, nextId, gen, http, DeployedPage, deployedFiles>>

ApplyBuildFaqSchema ==
    /\ unit.op = "buildFaqSchema" /\ unit.stage = 0
    /\ unit' = [unit EXCEPT !.stage = 1, !.out = buildFaqSchema(unit.faqArray)]
    /\ UNCHANGED <<Page, nextId, gen, http, DeployedPage, deployedFiles>>

NextUnit ==
    \/ ApplyBuildFaqSchema
    \/ ApplyFill
    \/ ApplyFillAgain
    \/ ApplyMakeUniqueSlug
    \/ ApplyValidateTemplate

SpecUnit == InitUnit /\ [][NextUnit]_vars

\* =================================================================
\* Properties
\* =================================================================
foo == <<"f","o","o">>
foo1 == <<"f","o","o","-","1">>
foo2 == <<"f","o","o","-","2">>

Created == "Created page"
Lines(log, line) == Cardinality({n \in 1..Len(log) : log[n] = line})
Finished(g) == g.pc = "done" /\ g.res.status = 200

\* the n-th element of the sequence base, base-1, base-2, ...
SlugSeq(baseSlug, n) == IF n = 0 THEN baseSlug ELSE baseSlug \o <<"-">> \o Digits(n)

\* C1: in every reachable state, whatever the interleaving of generate
\* batches, single deletes and bulk deletes, no two stored pages have the
\* same slug.
C1_UniqueSlugs == \A p \in Page, q \in Page : p.slug = q.slug => p = q

\* two batches raced for one slug, the index rejected one insert, and the
\* store holds several pages
C1_Witness ==
    /\ Cardinality(Page) >= 2
    /\ \E b \in Batches : Lines(gen[b].log, "E11000 duplicate key") >= 1

\* C2: when a batch whose template passed validation has finished,
\* success + errors = rows.length, results.pages has success entries, and
\* the batch inserted one document per successful row and none otherwise.
C2_BatchCounts ==
    \A b \in Batches :
        Finished(gen[b]) =>
            /\ gen[b].results.success + gen[b].results.errors = Len(gen[b].rows)
            /\ Len(gen[b].results.pages) = gen[b].results.success
            /\ gen[b].inserts = gen[b].results.success
            /\ Lines(gen[b].log, Created) = gen[b].results.success
            /\ gen[b].res.body.results = gen[b].results

\* a finished batch with both a successful and a failed row
C2_Witness ==
    \E b \in Batches :
        /\ Finished(gen[b])
        /\ gen[b].results.success >= 1
        /\ gen[b].results.errors >= 1

\* C3: a row that fails in substitution, slug allocation or persistence is
\* counted in results.errors, the rows after it are still processed, and
\* the step that records the failure removes no page from the store.
C3_RowErrorContinues ==
    /\ [](\A b \in Batches :
            /\ Len(gen[b].log) = gen[b].i
            /\ gen[b].results.errors = Len(gen[b].log) - Lines(gen[b].log, Created)
            /\ Finished(gen[b]) => gen[b].i = Len(gen[b].rows))
    /\ [][\A b \in Batches :
            gen'[b].results.errors > gen[b].results.errors => Page \subseteq Page']_vars

\* a finished batch of three rows whose middle row failed: the first page is
\* still stored and the third row was processed and stored
C3_Witness ==
    \E b \in Batches :
        /\ Finished(gen[b])
        /\ Len(gen[b].log) = 3
        /\ gen[b].log[1] = Created /\ gen[b].log[2] # Created /\ gen[b].log[3] = Created
        /\ \A n \in 1..2 : gen[b].results.pages[n].slug \in Slugs(Page)

\* C4: a generate request whose template declares a variable that is not a
\* key of rows[0] is rejected with the list of missing variables; no row is
\* processed and the request inserts nothing, whatever the other rows hold.
MissingFrom(variables, row) == SelectSeq(variables, LAMBDA v : ~HasKey(row, v))

C4_MissingVariableRejects ==
    \A b \in Batches :
        ( /\ gen[b].pc # "idle"
          /\ gen[b].rows # <<>>
          /\ gen[b].template.typeof = "object"
          /\ gen[b].template.variables # NullList
          /\ MissingFrom(gen[b].template.variables, gen[b].rows[1]) # <<>> )
        => /\ gen[b].pc = "done"
           /\ gen[b].res.status = 400
           /\ gen[b].res.body.missing =
                 MissingFrom(gen[b].template.variables, gen[b].rows[1])
           /\ gen[b].i = 0 /\ gen[b].log = <<>> /\ gen[b].inserts = 0
           /\ gen[b].results = IdleGen.results

\* a rejected request whose first row lacks city while a later row has it
C4_Witness ==
    \E b \in Batches :
        /\ gen[b].template = TplCity
        /\ Len(gen[b].rows) >= 2
        /\ gen[b].rows[1] = RowBadKey /\ gen[b].rows[2] = RowFoo
        /\ gen[b].res.status = 400
        /\ gen[b].res.body.missing = <<cityKey>>

\* C5 helpers
SameSeed(rows) == \A n \in 1..Len(rows) : primaryKeyword(rows[n]) = primaryKeyword(rows[1])
BaseOf(rows) == slugify(primaryKeyword(rows[1]))
PageSlugs(results) == [n \in 1..Len(results.pages) |-> results.pages[n].slug]
ExpectedSlugs(baseSlug, k) == [n \in 1..k |-> SlugSeq(baseSlug, n - 1)]
\* the row is substituted without error and its page passes the schema
Persistable(template, row, slug) ==
    /\ ~processTemplateThrows(template, row)
    /\ PageValid([slug |-> slug] @@ processTemplate(template, row))

\* C5 as stated, for rows that can be persisted: with no concurrent writer,
\* k rows sharing one seed on a store that holds no page with the base slug
\* get base, base-1, ..., base-(k-1) in input order and all k are persisted.
C5_AsStated ==
    \A b \in Batches :
        ( /\ Finished(gen[b])
          /\ SameSeed(gen[b].rows)
          /\ BaseOf(gen[b].rows) # <<>>
          /\ \A n \in 1..Len(gen[b].rows) :
                Persistable(gen[b].template, gen[b].rows[n], BaseOf(gen[b].rows))
          /\ BaseOf(gen[b].rows) \notin gen[b].slugs0 )
        => PageSlugs(gen[b].results) = ExpectedSlugs(BaseOf(gen[b].rows), Len(gen[b].rows))

\* C5 (amended): rows are handled one at a time in input order (row i+1 is
\* started only when row i has its log line); with no concurrent insert or
\* delete, k rows sharing one seed with a non-empty base, each substituted
\* without error and passing the page schema, on a store that holds none of
\* base, base-1, ..., base-(k-1), get exactly these slugs in input order and
\* all k are inserted.
C5_Sequential ==
    \A b \in Batches :
        /\ Len(gen[b].log) = gen[b].i
        /\ ( /\ Finished(gen[b])
             /\ SameSeed(gen[b].rows)
             /\ BaseOf(gen[b].rows) # <<>>
             /\ \A n \in 1..Len(gen[b].rows) :
                   /\ Persistable(gen[b].template, gen[b].rows[n], BaseOf(gen[b].rows))
                   /\ SlugSeq(BaseOf(gen[b].rows), n - 1) \notin gen[b].slugs0 )
           => /\ PageSlugs(gen[b].results) =
                    ExpectedSlugs(BaseOf(gen[b].rows), Len(gen[b].rows))
              /\ gen[b].inserts = Len(gen[b].rows)

\* a batch of three rows with seed Foo that got foo, foo-1, foo-2
C5_Witness ==
    \E b \in Batches :
        /\ Finished(gen[b])
        /\ PageSlugs(gen[b].results) = <<foo, foo1, foo2>>

\* C6: when the unique index rejects the insert of a batch that raced
\* another one for the same slug, the rejection is a per-row error of that
\* batch (errors incremented, nothing stored or reported for the row), the
\* batch goes on with its next row, and no generate request ends as a
\* server fault.
C6_ConflictIsRowError ==
    /\ [](\A b \in Batches : gen[b].res.status # 500)
    /\ [][\A b \in Batches :
            ( /\ gen[b].pc = "save"
              /\ gen[b].finalSlug \in Slugs(Page)
              /\ gen'[b] # gen[b] )
            => /\ Page' = Page
               /\ gen'[b].log[gen[b].i + 1] = "E11000 duplicate key"
               /\ gen'[b].i > gen[b].i
               /\ gen'[b].results.errors > gen[b].results.errors
               /\ gen'[b].results.pages = gen[b].results.pages
               /\ gen'[b].pc \in {"check", "save", "done"}
               /\ gen'[b].pc = "done" =>
                     Finished(gen'[b]) /\ gen'[b].i = Len(gen[b].rows)]_vars

\* a batch lost the race on its first row, went on, and stored its second row
C6_Witness ==
    \E b \in Batches :
        /\ Finished(gen[b])
        /\ Len(gen[b].log) >= 2
        /\ gen[b].log[1] = "E11000 duplicate key"
        /\ gen[b].log[2] = Created

\* C7: with a non-empty normalized base, makeUniqueSlug returns the first
\* element of base, base-1, base-2, ... that the predicate reports free,
\* every earlier one being reported as existing; {foo, foo-1} and seed
\* "Foo" give foo-2, and an unused base is returned as it is.
C7_FirstFreeCandidate ==
    ( /\ unit.op = "makeUniqueSlug" /\ unit.stage = 1
      /\ unit.checkExists.isFunction
      /\ Truthy(unit.keyword)
      /\ slugify(unit.keyword) # <<>> )
    => LET baseSlug == slugify(unit.keyword)
           existing == unit.checkExists.existing
       IN  /\ \E n \in 0..(MaxSuffix + 1) :
                 /\ unit.out = SlugSeq(baseSlug, n)
                 /\ unit.out \notin existing
                 /\ \A m \in 0..(n - 1) : SlugSeq(baseSlug, m) \in existing
           /\ baseSlug \notin existing => unit.out = baseSlug
           /\ (unit.keyword = Foo /\ existing = {foo, foo1}) => unit.out = foo2

C7_Witness ==
    /\ unit.op = "makeUniqueSlug" /\ unit.stage = 1
    /\ unit.keyword = Foo
    /\ unit.checkExists.existing = {foo, foo1}
    /\ unit.out = foo2

\* the text fill is specified to give: every {k} of str whose k is a key of
\* the row is replaced by the row's value (empty when falsy), one pass over
\* str, the inserted text taken as it is
KeyAt(str, p, row) == {n \in 1..Len(row) : MatchesAt(str, p, Pattern(row[n][1]))}
RECURSIVE Substitute(_, _, _)
Substitute(str, p, row) ==
    IF p > Len(str) THEN <<>>
    ELSE IF KeyAt(str, p, row) # {}
    THEN LET n == CHOOSE k \in KeyAt(str, p, row) : TRUE
         IN  OrEmpty(row[n][2]) \o Substitute(str, p + Len(Pattern(row[n][1])), row)
    ELSE <<str[p]>> \o Substitute(str, p + 1, row)

\* C8: fill(s, row) replaces every {k} of s, k a key of row, by row[k]
\* (by the empty string when row[k] is falsy) and leaves every other {k}
\* as written.
C8_FillReplacesTokens ==
    (unit.op = "fill" /\ unit.stage \in {1, 2})
    => unit.out1 = Substitute(unit.str, 1, unit.vars)

TokenAt(str, p, key) ==
    /\ p + Len(key) + 1 <= Len(str)
    /\ str[p] = "{"
    /\ SubSeq(str, p + 1, p + Len(key)) = key
    /\ str[p + Len(key) + 1] = "}"
NoTokenOfRow(str, row) ==
    \A p \in 1..Len(str), n \in 1..Len(row) : ~TokenAt(str, p, row[n][1])
PlainKeys(row) ==
    \A n \in 1..Len(row) : \A k \in 1..Len(row[n][1]) : IsAlnum(row[n][1][k])

Declared(template) == IF template.variables = NullList THEN <<>> ELSE template.variables
NotIn(list, x) == list = NullList \/ \A n \in 1..Len(list) : list[n] # x

C10_AsStated ==
    (unit.op = "validateTemplate" /\ unit.stage = 1)
    => /\ unit.out.missing =
             SelectSeq(Declared(unit.template), LAMBDA v : NotIn(unit.csvHeaders, v))
       /\ unit.out.isValid <=> (unit.out.missing = <<>>)

\* C10 (amended): when the template has a variables array and the headers
\* are an array, missing is exactly the declared variables that are not
\* headers, in declared order, and isValid holds iff missing is empty
\* ([city, keyword] against [keyword] gives missing [city] and isValid
\* false); otherwise the result is isValid false with an empty missing list.
C10_MissingVariables ==
    (unit.op = "validateTemplate" /\ unit.stage = 1)
    => IF /\ unit.template.typeof = "object"
          /\ unit.template.variables # NullList
          /\ unit.csvHeaders # NullList
       THEN /\ unit.out.missing =
                  SelectSeq(unit.template.variables, LAMBDA v : NotIn(unit.csvHeaders, v))
            /\ unit.out.isValid <=> (unit.out.missing = <<>>)
            /\ ( /\ unit.template.variables = <<cityKey, keywordKey>>
                 /\ unit.csvHeaders = <<keywordKey>> )
               => unit.out.missing = <<cityKey>> /\ ~unit.out.isValid
       ELSE ~unit.out.isValid /\ unit.out.missing = <<>>

C10_Witness ==
    /\ unit.op = "validateTemplate" /\ unit.stage = 1
    /\ unit.template.variables = <<cityKey, keywordKey>>
    /\ unit.csvHeaders = <<keywordKey>>
    /\ unit.out.missing = <<cityKey>>
    /\ ~unit.out.isValid

\* the question/answer entries of the pairs that have both, in list order
RECURSIVE BothEntries(_)
BothEntries(list) ==
    IF list = <<>> THEN <<>>
    ELSE LET f == Head(list)
         IN  (IF f.q \notin {<<>>, NullStr} /\ f.a \notin {<<>>, NullStr}
              THEN << [name |-> f.q, text |-> f.a] >> ELSE <<>>)
             \o BothEntries(Tail(list))

\* C11: buildFaqSchema(list) is the empty object when the list is empty or
\* no pair has both a non-empty question and a non-empty answer; otherwise
\* its entries are exactly the pairs having both, one per pair, in list order.
C11_FaqSchemaEntries ==
    (unit.op = "buildFaqSchema" /\ unit.stage = 1 /\ unit.faqArray # NoFaqArray)
    => IF BothEntries(unit.faqArray) = <<>>
       THEN unit.out = EmptyObject
       ELSE /\ unit.out # EmptyObject
            /\ unit.out.mainEntity = BothEntries(unit.faqArray)

\* a list of two pairs of which only the second has both
C11_Witness ==
    /\ unit.op = "buildFaqSchema" /\ unit.stage = 1
    /\ Len(unit.faqArray) = 2
    /\ unit.faqArray[1].a = <<>>
    /\ Len(unit.out.mainEntity) = 1
    /\ unit.out.mainEntity[1].name = unit.faqArray[2].q

\* ----------------------------------------------------------------- site
RenderDone == http.read.op = "render" /\ http.read.pc = "done"
HasElement(head, tag, content) ==
    \E n \in 1..Len(head) : head[n].tag = tag /\ head[n].content = content

\* C12: a render request for a slug with no stored page returns the
\* not-found document (404), never a server fault; a render request for a
\* stored slug returns the document of that page.
C12_RenderFoundOrNotFound ==
    /\ [][ (http.read.op = "render" /\ http.read.pc = "findOne"
                                    /\ http'.read.pc # "findOne")
           => IF http.read.slug \in Slugs(Page)
              THEN http'.read.page \in Page /\ http'.read.page.slug = http.read.slug
              ELSE /\ http'.read.pc = "done"
                   /\ http'.read.res = NotFoundDocument(http.read.slug) ]_vars
    /\ [](RenderDone =>
            /\ http.read.res.status # 500
            /\ http.read.page # NoPage =>
                  /\ http.read.res.status = 200
                  /\ HasElement(http.read.res.head, "title", http.read.page.title)
                  /\ http.read.res.h1 = http.read.page.h1)

C14_SitemapEntries ==
    [][ (http.read.op = "sitemap" /\ http.read.pc = "find" /\ http'.read.pc = "done")
        => LET urls == http'.read.res.urls
               baseUrl == http.read.baseUrl
           IN  /\ Len(urls) = 1 + Cardinality(Page)
               /\ urls[1].loc = baseUrl \o <<"/">>
               /\ \A p \in Page :
                     Cardinality({n \in 2..Len(urls) :
                                    urls[n].loc = baseUrl \o <<"/">> \o p.slug}) = 1 ]_vars

\* a sitemap of an empty store: the root entry alone
C14_Witness ==
    /\ http.read.op = "sitemap" /\ http.read.pc = "done"
    /\ Len(http.read.res.urls) = 1
    /\ http.read.res.urls[1].loc = http.read.baseUrl \o <<"/">>

\* C15: a sitemap request that starts after a generate or delete operation
\* has completed reflects it: the response lists the slugs stored when it
\* is given, and no response computed earlier is reused.
C15_SitemapFresh ==
    [][ (http.read.op = "sitemap" /\ http.read.pc # "done" /\ http'.read.pc = "done")
        => {http'.read.res.urls[n].loc : n \in 2..Len(http'.read.res.urls)}
           = {http'.read.baseUrl \o <<"/">> \o p.slug : p \in Page} ]_vars

\* C16: a delete request for a slug with no stored page answers 'Page not
\* found' (404) and leaves the store unchanged; one for a stored slug
\* removes exactly that page.
C16_DeleteOnePage ==
    [][ (http'.admin # http.admin /\ http'.admin.op = "deletePage")
        => LET slug == http'.admin.slug
           IN  IF slug \in Slugs(Page)
               THEN /\ http'.admin.res.status = 200
                    /\ Page' = {p \in Page : p.slug # slug}
                    /\ Cardinality(Page') = Cardinality(Page) - 1
               ELSE /\ http'.admin.res.status = 404
                    /\ http'.admin.res.body.error = "Page not found"
                    /\ Page' = Page ]_vars

\* a slug that was deleted is asked to be deleted again, other pages remain
C16_Witness ==
    /\ http.admin.op = "deletePage"
    /\ http.admin.res.status = 404
    /\ Page # {}

\* C17: bulk delete by templateKey removes all and only the pages with
\* that templateKey, reports their number as deletedCount and leaves the
\* other pages as they are; without a templateKey it is rejected and
\* deletes nothing.
C17_DeleteByTemplateKey ==
    [][ (http'.admin # http.admin /\ http'.admin.op = "deletePages")
        => LET templateKey == http'.admin.templateKey
           IN  IF templateKey \in {<<>>, NullStr}
               THEN /\ http'.admin.res.status = 400
                    /\ Page' = Page
               ELSE /\ http'.admin.res.status = 200
                    /\ Page' = {p \in Page : p.templateKey # templateKey}
                    /\ http'.admin.res.body.deletedCount
                         = Cardinality({p \in Page : p.templateKey = templateKey}) ]_vars

\* two pages of one template were deleted, pages of other templates remain
C17_Witness ==
    /\ http.admin.op = "deletePages"
    /\ http.admin.res.status = 200
    /\ http.admin.res.body.deletedCount = 2
    /\ Page # {}
    /\ \A p \in Page : p.templateKey # http.admin.templateKey

\* C18: every generate request that fails at batch level (no rows, no
\* template, template validation failure, unexpected exception) returns a
\* summary carrying success and error counts.
C18_FailureSummary ==
    \A b \in Batches :
        (gen[b].pc = "done" /\ gen[b].res.status # 200)
        => /\ "results" \in DOMAIN gen[b].res.body
           /\ {"success", "errors"} \subseteq DOMAIN gen[b].res.body.results

\* C19: the document rendered for a stored page carries, for every render
\* variant, the page's title, its meta description and a canonical URL
\* equal to the request host, '/' and the page's slug.
C19_HeadOfDocument ==
    (RenderDone /\ http.read.res.status = 200)
    => /\ HasElement(http.read.res.head, "title", http.read.page.title)
       /\ HasElement(http.read.res.head, "meta description", http.read.page.metaDescription)
       /\ \E baseUrl \in BaseUrls :
             HasElement(http.read.res.head, "link canonical",
                        baseUrl \o <<"/">> \o http.read.page.slug)

\* -------------------------------------------------------------- server
\* C20: with admin credentials configured, a request to /admin or /api or
\* a path below them that carries no valid Basic credentials is answered
\* 401 and reaches neither a static file handler nor a route handler.
C20_AdminNeedsCredentials ==
    ( /\ http.read.op = "dispatch" /\ http.read.pc = "done"
      /\ http.server.credentials
      /\ \/ http.read.req.path \in {adminPath, apiPath}
         \/ IsPrefix(adminPath \o <<"/">>, http.read.req.path)
         \/ IsPrefix(apiPath \o <<"/">>, http.read.req.path)
      /\ ~ ( /\ http.read.req.authorization.scheme = "Basic"
             /\ http.read.req.authorization.username = ADMIN_USER
             /\ http.read.req.authorization.password = ADMIN_PASS ) )
    => /\ http.read.res.status = 401
       /\ http.read.res.by = "basicAuth"

\* ------------------------------------------------ the admin panel: upload
MaxCsvRows == 11        \* data rows of an uploaded file

\* a line whose fields are all empty
RowBlank == << <<keywordKey, <<>>>>, <<cityKey, <<>>>> >>

\* n data rows, with or without a blank line after them
CsvFile(n, blank) ==
    [k \in 1..n |-> RowFoo] \o (IF blank THEN <<RowBlank>> ELSE <<>>)
CsvFiles == {CsvFile(n, blank) : n \in 0..MaxCsvRows, blank \in BOOLEAN}

\* results.data.filter(row => Object.values(row).some(value => value && ...))
RECURSIVE cleanData(_)
cleanData(data) ==
    IF data = <<>> THEN <<>>
    ELSE (IF \E k \in 1..Len(Head(data)) : Truthy(Head(data)[k][2])
          THEN <<Head(data)>> ELSE <<>>) \o cleanData(Tail(data))

\* resolve({ data: cleanData, headers: results.meta.fields || [], totalRows })
parseCsvToJson(file) ==
    [data |-> cleanData(file),
     headers |-> IF file = <<>> THEN <<>> ELSE Keys(file[1]),
     totalRows |-> Len(cleanData(file))]

\* data.slice(0, limit)
getPreview(data, limit) ==
    SubSeq(data, 1, IF Len(data) < limit THEN Len(data) ELSE limit)

\* const preview = getPreview(csvResult.data, 10)
PreviewLimit == 10

\* handleFileUpload: POST /api/upload answers with headers, preview and
\* totalRows, and the panel keeps the answer as csvData
Upload(file) ==
    /\ http.panel.csvData.isNull
    /\ gen["g1"].pc = "idle"
    /\ LET csvResult == parseCsvToJson(file)
       IN  http' = [http EXCEPT !.panel =
               [file |-> file,
                csvData |-> [isNull |-> FALSE,
                             headers |-> csvResult.headers,
                             preview |-> getPreview(csvResult.data, PreviewLimit),
                             totalRows |-> csvResult.totalRows]]]
    /\ UNCHANGED <<Page, nextId, gen, unit, DeployedPage, deployedFiles>>

\* handleClearData: setCsvData(null)
ClearData ==
    /\ ~http.panel.csvData.isNull
    /\ http' = [http EXCEPT !.panel = NoPanel]
    /\ UNCHANGED <<Page, nextId, gen, unit, DeployedPage, deployedFiles>>

\* handleGenerate: requestData = { rows: csvData.preview, template }, then
\* axios.post('/api/generate', requestData)
HandleGenerate(template) ==
    /\ ~http.panel.csvData.isNull
    /\ template.typeof = "object"
    /\ PostGenerate("g1", http.panel.csvData.preview, template)
    /\ UNCHANGED http

NextPanel ==
    \/ \E file \in CsvFiles : Upload(file)
    \/ ClearData
    \/ HandleGenerate(TplKeyword)
    \/ CheckSlugExists("g1")
    \/ SavePage("g1")

SpecPanel == Init /\ [][NextPanel]_vars

\* the data rows of the file the panel holds (until the data is cleared)
DataRows == parseCsvToJson(http.panel.file).data

\* C21: a generate request issued from the panel after an upload carries
\* every non-empty data row of the file, and the handler works through one
\* row per data row, for every number of rows
C21_PanelSubmitsAllRows ==
    (gen["g1"].pc # "idle" /\ ~http.panel.csvData.isNull) =>
        /\ gen["g1"].rows = DataRows
        /\ gen["g1"].pc = "done" => Len(gen["g1"].log) = Len(DataRows)

\* the same key/value pairs in the opposite key order
Reverse(row) == [n \in 1..Len(row) |-> row[Len(row) + 1 - n]]

\* C22: the text put in for a token is not scanned for further tokens, and
\* fill(s, row) is the same for two rows that hold the same key/value pairs
\* in different key order, also when a value has the form {otherKey}
C22_FillKeyOrder ==
    (unit.op = "fill" /\ unit.stage \in {1, 2})
    => unit.out1 = fill(unit.str, Reverse(unit.vars))

\* the render has loaded its page and the page has been deleted since
LostRace == http.read.op = "render" /\ http.read.page # NoPage /\ http.read.page \notin Page

\* C23: a render that runs concurrently with a delete of its slug ends in
\* the not-found document or in a complete document built from the page as
\* it was stored; if the page was gone before the lookup, in not-found
C23_RenderVersusDelete ==
    /\ [][ (http.read.op = "render" /\ http.read.pc = "findOne"
                                    /\ http'.read.pc # "findOne"
                                    /\ http.read.slug \notin Slugs(Page))
           => http'.read.pc = "done" /\ http'.read.res = NotFoundDocument(http.read.slug) ]_vars
    /\ []((RenderDone /\ LostRace) =>
            /\ http.read.page \in SitePages
            /\ http.read.page.slug = http.read.slug
            /\ http.read.res.status = 200
            /\ http.read.res.head = HeadOf(http.read.page)
            /\ http.read.res.h1 = http.read.page.h1
            /\ http.read.res.ldjson = (http.read.page.faqSchema.nkeys > 0))

\* ------------------------------------------- generate: rows and their seeds
\* rows whose seed is empty or normalizes to nothing, next to a usual row
RowBang == << <<keywordKey, <<"!">>>>, <<cityKey, <<"x">>>> >>
RowSpaceFirst == << <<cityKey, <<" ">>>> >>
SeedRows == {RowFoo, RowBang, RowEmpty, RowSpaceFirst}

\* a template whose fields do not depend on the row
TplStatic == [TplKeyword EXCEPT !.title = <<"t">>, !.variables = <<>>]

NextSeed ==
    \/ \E b \in {c \in Batches : gen[c].pc = "idle"} :
          \E rows \in SeqsUpTo(SeedRows, MaxRows - Submitted) :
             StartGenerate(b, rows, TplStatic)
    \/ \E b \in Batches : CheckSlugExists(b)
    \/ \E b \in Batches : SavePage(b)

SpecSeed == Init /\ [][NextSeed]_vars

\* the seed of the row is empty or slugify leaves nothing of it
EmptySeed(row) == slugify(primaryKeyword(row)) = <<>>

\* C24: a row whose seed is empty or normalizes to the empty string gets
\* the empty slug from makeUniqueSlug, is not stored and is counted as a
\* row error; no stored page has an empty slug
C24_EmptySeedIsRowError ==
    /\ \A p \in Page : p.slug # <<>> /\ ~EmptySeed(p.vars)
    /\ \A b \in Batches : \A k \in 1..Len(gen[b].log) :
          EmptySeed(gen[b].rows[k]) =>
             /\ makeUniqueSlug(primaryKeyword(gen[b].rows[k]),
                               [isFunction |-> TRUE, existing |-> Slugs(Page)]) = <<>>
             /\ gen[b].log[k] = "ValidationError"
             /\ gen[b].results.errors >= Lines(gen[b].log, "ValidationError")
             /\ Len(gen[b].results.pages) = Lines(gen[b].log, Created)

\* a finished batch stored the page of its first row and counted the rows
\* '!' (normalizes to nothing) and '' (empty) after it as errors
C24_Witness ==
    \E b \in Batches :
        /\ Finished(gen[b])
        /\ gen[b].rows = <<RowFoo, RowBang, RowEmpty>>
        /\ gen[b].results = [success |-> 1, skipped |-> 0, errors |-> 2,
                             pages |-> <<[slug |-> foo, title |-> <<"t">>]>>]
        /\ Slugs(Page) = {foo}

\* ----------------------------------- generate batches that run to their end
\* concurrent batches and no other request; every awaited database call
\* is answered: the driver returns a result or an error for each operation
LiveRows == {RowFoo, RowFoo1, RowEmpty}

NextLive ==
    \/ \E b \in {c \in Batches : gen[c].pc = "idle"} :
          \E rows \in SeqsUpTo(LiveRows, MaxRows - Submitted) :
             StartGenerate(b, rows, TplKeyword)
    \/ \E b \in Batches : CheckSlugExists(b)
    \/ \E b \in Batches : SavePage(b)

SpecLive ==
    /\ Init /\ [][NextLive]_vars
    /\ \A b \in Batches : WF_vars(CheckSlugExists(b)) /\ WF_vars(SavePage(b))

\* C25: every allocation terminates. An allocation has made gen[b].counter
\* existence checks in all (the pending one included), at most one more
\* than there are stored pages; a started batch finishes, having handled
\* each of its rows once, also while another batch inserts pages
C25_AllocationTerminates ==
    /\ [](\A b \in Batches :
            /\ Running(gen[b]) => gen[b].counter <= Cardinality(Page) + 1
            /\ Finished(gen[b]) => /\ gen[b].i = Len(gen[b].rows)
                                   /\ Len(gen[b].log) = Len(gen[b].rows))
    /\ [][\A b \in Batches : gen'[b].i >= gen[b].i]_vars
    /\ \A b \in Batches : (gen[b].pc # "idle") ~> (gen[b].pc = "done")

\* both batches have finished; one of them needed three existence checks
\* for one row because the other had stored foo and foo-1 meanwhile
C25_Witness ==
    /\ \A b \in Batches : Finished(gen[b]) /\ gen[b].rows # <<>>
    /\ {foo, foo1, foo2} \subseteq Slugs(Page)
    /\ \E b \in Batches : gen[b].rows = <<RowFoo>> /\ gen[b].results.pages[1].slug = foo2

\* ------------------------------------------------- POST /deploy/:slug
MaxDeploys == 2         \* deploy requests of a run

keyword1Key == <<"k","e","y","w","o","r","d","1">>

\* (deployName && String(deployName).trim()) || (page.vars &&
\* (page.vars.keyword || page.vars.keyword1)) || page.title || page.slug
deployBase(page, deployName) ==
    IF Truthy(deployName) /\ Trim(deployName) # <<>> THEN Trim(deployName)
    ELSE IF Truthy(Get(page.vars, keywordKey)) THEN Get(page.vars, keywordKey)
    ELSE IF Truthy(Get(page.vars, keyword1Key)) THEN Get(page.vars, keyword1Key)
    ELSE IF Truthy(page.title) THEN page.title
    ELSE page.slug

\* TEMPLATE_VIEW_MAP[page.templateKey] || TEMPLATE_VIEW_MAP['minimal']: a
\* key the object inherits gives a function, and no view file has its name
deployViewMissing(page) == page.templateKey \in InheritedKeys

DeployedUrl(finalDeploySlug) == <<"/","d","e","p","l","o","y","e","d","/">> \o finalDeploySlug

\* pageSlug, deploySlug and url are required
DeployedValid(rec) == Truthy(rec.pageSlug) /\ Truthy(rec.deploySlug) /\ Truthy(rec.url)

Deploys == IF http.deploy.op = "deploy" THEN http.deploy.n ELSE 0

\* the request arrives; Page.findOne({ slug }) is sent
StartDeploy(slug, deployName) ==
    /\ Free("deploy")
    /\ Deploys < MaxDeploys
    /\ http' = [http EXCEPT !.deploy =
           [pc |-> "findOne", op |-> "deploy", slug |-> slug, deployName |-> deployName,
            page |-> NoPage, deploySlug |-> <<>>, finalDeploySlug |-> <<>>, counter |-> 1,
            n |-> Deploys + 1, res |-> NoResponse]]
    /\ UNCHANGED <<Page, nextId, gen, unit, DeployedPage, deployedFiles>>

DeployFault(h, message) ==
    [h EXCEPT !.pc = "done",
              !.res = [status |-> 500, body |-> [success |-> FALSE, error |-> message]]]

\* the page lookup answers: 404, or the deploy slug is computed and the
\* first DeployedPage.findOne({ deploySlug }) is sent
DeployFindOne ==
    /\ http.deploy.op = "deploy" /\ http.deploy.pc = "findOne"
    /\ LET h == http.deploy
       IN  http' = [http EXCEPT !.deploy =
               IF \E p \in Page : p.slug = h.slug
               THEN LET page == CHOOSE p \in Page : p.slug = h.slug
                        deploySlug == slugify(deployBase(page, h.deployName))
                    IN  [h EXCEPT !.pc = "check", !.page = page,
                                  !.deploySlug = deploySlug,
                                  !.finalDeploySlug = deploySlug]
               ELSE [h EXCEPT !.pc = "done",
                              !.res = [status |-> 404,
                                       body |-> [success |-> FALSE,
                                                 error |-> "Page not found"]]]]
    /\ Page' = findOne(Page, http.deploy.slug)
    /\ UNCHANGED <<nextId, gen, unit, DeployedPage, deployedFiles>>

\* one pass of while (await DeployedPage.findOne({ deploySlug: finalDeploySlug }));
\* a free slug leads to the query for the related pages
DeployCheck ==
    /\ http.deploy.op = "deploy" /\ http.deploy.pc = "check"
    /\ LET h == http.deploy
       IN  http' = [http EXCEPT !.deploy =
               IF \E r \in DeployedPage : r.deploySlug = h.finalDeploySlug
               THEN [h EXCEPT !.finalDeploySlug = Candidate(h.deploySlug, h.counter),
                              !.counter = h.counter + 1]
               ELSE [h EXCEPT !.pc = "related"]]
    /\ UNCHANGED <<Page, nextId, gen, unit, DeployedPage, deployedFiles>>

deployedRecord(h) ==
    [pageSlug |-> h.page.slug, deploySlug |-> h.finalDeploySlug,
     title |-> h.page.title, url |-> DeployedUrl(h.finalDeploySlug),
     provider |-> "local-static"]

\* the related pages arrive: the view is rendered, index.html is written
\* under public/deployed, the record is validated and its insert is sent
DeployRelated ==
    /\ http.deploy.op = "deploy" /\ http.deploy.pc = "related"
    /\ LET h == http.deploy
       IN  IF deployViewMissing(h.page)
           THEN /\ http' = [http EXCEPT !.deploy = DeployFault(h, "ENOENT")]
                /\ UNCHANGED deployedFiles
           ELSE /\ deployedFiles' = deployedFiles \cup {h.finalDeploySlug}
                /\ http' = [http EXCEPT !.deploy =
                       IF DeployedValid(deployedRecord(h)) THEN [h EXCEPT !.pc = "save"]
                       ELSE DeployFault(h, "ValidationError")]
    /\ UNCHANGED <<Page, nextId, gen, unit, DeployedPage>>

\* deployed.save() answers: stored, or rejected by the unique index
DeploySave ==
    /\ http.deploy.op = "deploy" /\ http.deploy.pc = "save"
    /\ LET h == http.deploy
           rec == deployedRecord(h)
       IN  IF \E r \in DeployedPage : r.deploySlug = rec.deploySlug
           THEN /\ http' = [http EXCEPT !.deploy = DeployFault(h, "E11000 duplicate key")]
                /\ UNCHANGED <<DeployedPage, nextId>>
           ELSE /\ DeployedPage' = DeployedPage \cup
                       {[id |-> nextId, pageSlug |-> rec.pageSlug,
                         deploySlug |-> rec.deploySlug, title |-> rec.title,
                         url |-> rec.url, provider |-> rec.provider]}
                /\ nextId' = nextId + 1
                /\ http' = [http EXCEPT !.deploy =
                       [h EXCEPT !.pc = "done",
                                 !.res = [status |-> 200,
                                          body |-> [success |-> TRUE,
                                                    url |-> rec.url,
                                                    deploySlug |-> rec.deploySlug]]]]
    /\ UNCHANGED <<Page, gen, unit, deployedFiles>>

\* --------------------------------------------- DELETE /deployed/:id
\* the request arrives; DeployedPage.findById(id) is sent
StartDeleteDeployed(id) ==
    /\ Free("admin")
    /\ http' = [http EXCEPT !.admin =
           [pc |-> "findById", op |-> "deleteDeployed", id |-> id, res |-> NoResponse]]
    /\ UNCHANGED <<Page, nextId, gen, unit, DeployedPage, deployedFiles>>

\* findById answers: 404, or the directory is removed and deleteOne is sent
DeleteDeployedFind ==
    /\ http.admin.op = "deleteDeployed" /\ http.admin.pc = "findById"
    /\ LET h == http.admin
       IN  IF \E r \in DeployedPage : r.id = h.id
           THEN LET rec == CHOOSE r \in DeployedPage : r.id = h.id
                IN  /\ deployedFiles' = deployedFiles \ {rec.deploySlug}
                    /\ http' = [http EXCEPT !.admin = [h EXCEPT !.pc = "deleteOne"]]
           ELSE /\ http' = [http EXCEPT !.admin =
                       [h EXCEPT !.pc = "done",
                                 !.res = [status |-> 404,
                                          body |-> [success |-> FALSE,
                                                    error |-> "Deployed page not found"]]]]
                /\ UNCHANGED deployedFiles
    /\ UNCHANGED <<Page, nextId, gen, unit, DeployedPage>>

\* DeployedPage.deleteOne({ _id: id }) answers
DeleteDeployedOne ==
    /\ http.admin.op = "deleteDeployed" /\ http.admin.pc = "deleteOne"
    /\ DeployedPage' = {r \in DeployedPage : r.id # http.admin.id}
    /\ http' = [http EXCEPT !.admin =
           [http.admin EXCEPT !.pc = "done",
                              !.res = [status |-> 200,
                                       body |-> [success |-> TRUE,
                                                 message |-> "Deleted deployed page"]]]]
    /\ UNCHANGED <<Page, nextId, gen, unit, deployedFiles>>

\* generate, the reading routes, deploy and the three delete routes together
DeployRows == {<<RowFoo>>, <<RowFoo, RowFoo>>}
DeployNames == {NullStr}
DeployedIds == {r.id : r \in DeployedPage} \cup {0}

NextDeploy ==
    \/ \E rows \in DeployRows : StartGenerate("g1", rows, TplKeyword)
    \/ CheckSlugExists("g1")
    \/ SavePage("g1")
    \/ StartRender(foo)
    \/ RenderFindOne
    \/ RenderRelated
    \/ StartSitemap(<<"h","t","t","p",":","/","/","a">>, "origin")
    \/ SitemapFind
    \/ StartList(NullStr)
    \/ ListCount
    \/ ListFind
    \/ ListDistinct
    \/ \E deployName \in DeployNames : StartDeploy(foo, deployName)
    \/ DeployFindOne
    \/ DeployCheck
    \/ DeployRelated
    \/ DeploySave
    \/ \E slug \in {foo, foo1} : DeletePageRequest(slug)
    \/ DeletePagesRequest(minimalKey)
    \/ \E id \in DeployedIds : StartDeleteDeployed(id)
    \/ DeleteDeployedFind
    \/ DeleteDeployedOne

SpecDeploy == Init /\ [][NextDeploy]_vars

C29_DeployedPageHasPage ==
    \A r \in DeployedPage : r.pageSlug \in Slugs(Page)

\* --------------------------------------------- generate: templates with faq
\* the first question is the row's city, the second answer its keyword
TplFaqCity ==
    [TplStatic EXCEPT !.variables = <<cityKey>>,
                      !.faq = << [q |-> <<"{","c","i","t","y","}">>, a |-> <<"a">>],
                                 [q |-> <<"q">>, a |-> <<"{","k","e","y","w","o","r","d","}">>] >>]
FaqTemplates == {TplStatic, TplFaqCity}
FaqRows == {RowFoo, RowFoo1}

NextFaq ==
    \/ \E b \in {c \in Batches : gen[c].pc = "idle"} :
          \E rows \in SeqsUpTo(FaqRows, MaxRows - Submitted), template \in FaqTemplates :
             StartGenerate(b, rows, template)
    \/ \E b \in Batches : CheckSlugExists(b)
    \/ \E b \in Batches : SavePage(b)

SpecFaq == Init /\ [][NextFaq]_vars

\* the faq pairs of a template with the row's values put in
FaqOf(template, row) ==
    [n \in 1..Len(template.faq) |-> [q |-> fill(template.faq[n].q, row),
                                     a |-> fill(template.faq[n].a, row)]]
EmptyPair(f) == f.q = <<>> \/ f.a = <<>>

\* C27: for every stored page faqSchema is the empty object iff faq is
\* empty; otherwise it has one entry per stored faq pair, in order, with
\* that pair's substituted question and answer. A row whose substitution
\* gives a pair with an empty question or answer is not stored
C27_FaqSchemaMatchesFaq ==
    /\ \A p \in Page :
          /\ (p.faqSchema = EmptyObject) <=> (p.faq = <<>>)
          /\ Len(p.faqSchema.mainEntity) = Len(p.faq)
          /\ \A n \in 1..Len(p.faq) :
                /\ p.faqSchema.mainEntity[n] = [name |-> p.faq[n].q, text |-> p.faq[n].a]
                /\ ~EmptyPair(p.faq[n])
          /\ \E template \in FaqTemplates : p.faq = FaqOf(template, p.vars)
    /\ \A b \in Batches : \A k \in 1..Len(gen[b].log) :
          (\E n \in 1..Len(gen[b].template.faq) :
               EmptyPair(FaqOf(gen[b].template, gen[b].rows[k])[n]))
          => gen[b].log[k] = "ValidationError"

\* a finished batch stored the row with a city, with two faq pairs and two
\* schema entries, and rejected the row whose city is empty
C27_Witness ==
    \E b \in Batches :
        /\ Finished(gen[b])
        /\ gen[b].template = TplFaqCity
        /\ gen[b].rows = <<RowFoo, RowFoo1>>
        /\ gen[b].log = <<Created, "ValidationError">>
        /\ \E p \in Page : /\ p.vars = RowFoo
                           /\ p.faq = << [q |-> <<"x">>, a |-> <<"a">>],
                                         [q |-> <<"q">>, a |-> Foo] >>
                           /\ Len(p.faqSchema.mainEntity) = 2

\* the keys of the fixed table
TableKeys == {minimalKey, localSeoKey, serviceLandingKey, modernBlueKey, darkPastelKey,
              faqRichKey}

\* C28: render takes the variant from the templateKey table and uses the
\* 'minimal' variant for every stored templateKey that is not in the table,
\* the key 'default' included; a key outside the table gives no error
C28_UnknownKeyFallsBack ==
    (RenderDone /\ http.read.page # NoPage) =>
        /\ http.read.res.status = 200
        /\ http.read.res.variant =
              IF http.read.page.templateKey \in TableKeys
              THEN TemplateMapEntry(http.read.page.templateKey).variant
              ELSE TemplateMapEntry(minimalKey).variant

\* C30: a slug is taken only while a page with it is stored. A check of a
\* candidate no stored page has (a page that had it may have been deleted)
\* ends the allocation with that candidate, which goes to page.save() (or
\* to the row's error when the document is not valid); a check of a
\* candidate in use moves to the next one; the candidates are tried in the order base,
\* base-1, base-2, ... without a gap, whatever higher suffixes are in use
C30_SlugFreedByDelete ==
    /\ [](\A b \in Batches :
            gen[b].pc \in {"check", "save"} =>
                gen[b].finalSlug = SlugSeq(gen[b].baseSlug, gen[b].counter - 1))
    /\ [][\A b \in Batches :
            (gen[b].pc = "check" /\ gen'[b] # gen[b]) =>
                IF gen[b].finalSlug \in Slugs(Page)
                THEN /\ gen'[b].pc = "check"
                     /\ gen'[b].counter = gen[b].counter + 1
                ELSE IF PageValid(pageData(gen[b]))
                THEN /\ gen'[b].pc = "save"
                     /\ gen'[b].finalSlug = gen[b].finalSlug
                     /\ gen'[b].i = gen[b].i
                ELSE gen'[b].log[gen[b].i + 1] = "ValidationError"]_vars

\* foo and foo-1 were stored, foo was deleted, and the next batch was given
\* foo again while foo-1 was still in use
C30_Witness ==
    /\ \A b \in Batches : Finished(gen[b])
    /\ \E b \in Batches : /\ gen[b].rows = <<RowFoo, RowFoo>>
                          /\ PageSlugs(gen[b].results) = <<foo, foo1>>
    /\ \E b \in Batches : /\ gen[b].rows = <<RowFoo>>
                          /\ PageSlugs(gen[b].results) = <<foo>>
    /\ \E p \in Page, q \in Page : p.slug = foo /\ q.slug = foo1 /\ p.id > q.id

====
